---- MODULE Spec2Model ----
(***************************************************************************)
(* Model of the two-stage command line parser of run-fig:                  *)
(*   analyze (src/src/analyze.ts)  classifies the raw input strings        *)
(*   parse   (src/src/parse.ts)    consumes the tokens and validates       *)
(*                                                                         *)
(* Strings are sequences of one-character strings, so that slicing,        *)
(* startsWith and indexOf are computed as the code computes them.          *)
(* parse.ts names the subcommand token kind "command"; analyze.ts names    *)
(* it "subcommand".  The model uses "subcommand" for both.                 *)
(***************************************************************************)
EXTENDS Integers, Sequences, FiniteSets, TLC

\* ------------------------------------------------------------------------
\* Bounds
\* ------------------------------------------------------------------------
MaxLen == 3

RepeatN == 2

\* ------------------------------------------------------------------------
\* String helpers (JavaScript String methods on character sequences)
\* ------------------------------------------------------------------------
StartsWith(s, p) == Len(p) <= Len(s) /\ SubSeq(s, 1, Len(p)) = p

\* s.slice(from): 0-based start
Slice(s, from) == SubSeq(s, from + 1, Len(s))

\* s.slice(from, to): 0-based, end exclusive
Slice2(s, from, to) == SubSeq(s, from + 1, to)

\* s.indexOf(p): 0-based position of the first occurrence, -1 when absent
IndexOf(s, p) ==
  LET hits == {i \in 0..Len(s) : i + Len(p) <= Len(s) /\ SubSeq(s, i + 1, i + Len(p)) = p}
  IN IF hits = {} THEN -1 ELSE CHOOSE i \in hits : \A j \in hits : i <= j

Range(s) == {s[i] : i \in 1..Len(s)}

\* All sequences over S of length at most n
RECURSIVE SeqsUpTo(_, _)
SeqsUpTo(S, n) ==
  IF n = 0 THEN {<<>>}
  ELSE LET shorter == SeqsUpTo(S, n - 1)
       IN shorter \cup {Append(s, x) : s \in {t \in shorter : Len(t) = n - 1}, x \in S}

\* ------------------------------------------------------------------------
\* Map helpers (JavaScript Map, keyed by strings)
\* ------------------------------------------------------------------------
EmptyMap == <<>>

MapHas(map, key) == key \in DOMAIN map

MapSet(map, key, value) ==
  [k \in (DOMAIN map) \cup {key} |-> IF k = key THEN value ELSE map[k]]

\* setEach setting the first key only
setEachFirstKey(map, keys, value) == MapSet(map, Head(keys), value)

\* setEach setting the last key only
setEachLastKey(map, keys, value) == MapSet(map, keys[Len(keys)], value)

\* setEach: the keys are the names of one option (a single name is a
\* one-element list)
RECURSIVE setEach(_, _, _)
setEach(map, keys, value) ==
  IF keys = <<>> THEN map
  ELSE setEach(MapSet(map, Head(keys), value), Tail(keys), value)

\* Number.POSITIVE_INFINITY of getMaxArgs and maxRepeat: larger than every
\* length the model can build
Infinity == 1000

\* ------------------------------------------------------------------------
\* The spec universe: strings
\* ------------------------------------------------------------------------
s_sep    == <<"-", "-">>
s_dash   == <<"-">>
s_a      == <<"-", "a">>
s_b      == <<"-", "b">>
s_c      == <<"-", "c">>
s_d      == <<"-", "d">>
s_p      == <<"-", "p">>
s_q      == <<"-", "q">>
s_r      == <<"-", "r">>
s_t      == <<"-", "t">>
s_u      == <<"-", "u">>
s_z      == <<"-", "z">>
s_ab     == <<"-", "a", "b">>
s_ba     == <<"-", "b", "a">>
s_cd     == <<"-", "c", "d">>
s_rr     == <<"-", "r", "r">>
s_x      == <<"x">>
s_dashx  == <<"-", "x">>
s_top    == <<"-", "-", "t", "o", "p">>
s_loc    == <<"-", "-", "l", "o", "c">>
s_bee    == <<"-", "-", "b", "e", "e">>
s_rep    == <<"-", "-", "r", "e", "p">>
s_opt    == <<"-", "-", "o", "p", "t">>
s_optv   == <<"-", "-", "o", "p", "t", "=", "v">>
s_v      == <<"v">>
s_sub    == <<"s", "u", "b">>
s_leaf   == <<"l", "e", "a", "f">>
s_other  == <<"o", "t", "h">>
s_eq     == <<"=">>

s_c1     == <<"c">>
s_eqc    == <<"=", "c">>
s_dxy    == <<"-", "x", "y">>

s_empty  == <<>>
s_foo    == <<"-", "-", "f", "o", "o">>
s_req    == <<"-", "-", "r", "e", "q">>
s_repv   == <<"-", "-", "r", "e", "p", "=", "v">>
s_s      == <<"-", "s">>
s_sv     == <<"-", "s", "v">>
s_seqv   == <<"-", "s", "=", "v">>
s_col    == <<"-", "-", "c", "o", "l">>
s_colcv  == <<"-", "-", "c", "o", "l", ":", "v">>
s_coleqv == <<"-", "-", "c", "o", "l", "=", "v">>
s_tcv    == <<"-", "t", ":", "v">>
s_tv     == <<"-", "t", "v">>
s_colon  == <<":">>
s_alpha  == <<"-", "-", "a", "l", "p", "h", "a">>
s_beta   == <<"-", "-", "b", "e", "t", "a">>
s_n      == <<"-", "n">>
s_1      == <<"1">>
s_2      == <<"2">>
s_ka     == <<"a">>
s_kab    == <<"a", "b">>
s_kac    == <<"a", "c">>
s_kxy    == <<"x", "y">>
s_kxz    == <<"x", "z">>
s_kb     == <<"b">>
s_kbc    == <<"b", "c">>
s_kbd    == <<"b", "d">>
s_kq     == <<"q">>

s_files  == <<"-", "-", "f", "i", "l", "e", "s">>
s_abc    == <<"a", "b", "c">>
s_val    == <<"v", "a", "l">>
s_valv   == <<"v", "a", "l", "=", "v">>
s_zzv    == <<"z", "z", "=", "v">>
s_opteac == <<"-", "-", "o", "p", "t", "=", "a", ":", "b">>
s_optcae == <<"-", "-", "o", "p", "t", ":", "a", "=", "b">>
s_optcv  == <<"-", "-", "o", "p", "t", ":", "v">>
s_two    == <<"-", "-", "t", "w", "o">>
s_twov   == <<"-", "-", "t", "w", "o", "=", "v">>

\* ------------------------------------------------------------------------
\* The spec universe: Arg, Option and Subcommand objects (src/src/types.ts)
\* An object is named by its id; object identity is equality of ids.
\* ------------------------------------------------------------------------
Arg == [isOptional |-> FALSE, isVariadic |-> FALSE]

OptionalArg == [isOptional |-> TRUE, isVariadic |-> FALSE]

\* `args` absent
NoArgs == [def |-> FALSE, list |-> <<>>]

\* `args` present: a single Arg is a one-element list
Args(list) == [def |-> TRUE, list |-> list]

\* `requiresSeparator` absent
NoSeparator == [truthy |-> FALSE, isString |-> FALSE, str |-> <<>>]

\* `requiresSeparator: true`
SeparatorTrue == [truthy |-> TRUE, isString |-> FALSE, str |-> <<>>]

\* `requiresSeparator: ":"`
SeparatorColon == [truthy |-> TRUE, isString |-> TRUE, str |-> s_colon]

\* isRepeatable: true
RepeatTrue == -1

\* An option with the given names and every other property absent.
\* isRepeatable: 0 stands for absent (both are falsy).
Opt(names) ==
  [name |-> names, args |-> NoArgs, isPersistent |-> FALSE,
   isRequired |-> FALSE, isRepeatable |-> 0, exclusiveOn |-> <<>>,
   dependsOn |-> <<>>, requiresSeparator |-> NoSeparator, action |-> ""]

\* parserDirectives absent; a boolean directive is "undefined", "true" or
\* "false"
NoDirectives ==
  [optionArgSeparators |-> [set |-> FALSE, val |-> <<>>],
   flagsArePosixNoncompliant |-> "undefined",
   optionsMustPrecedeArguments |-> "undefined",
   subcommandsMatchUniquePrefix |-> "undefined"]

\* A command with the given names and every other property absent.
\* An absent `options` or `subcommands` is the empty list.
Cmd(names) ==
  [name |-> names, args |-> NoArgs, options |-> <<>>, subcommands |-> <<>>,
   parserDirectives |-> NoDirectives, action |-> "", requiresSubcommand |-> FALSE]

OptionIds ==
  {"o_top", "o_a", "o_loc",
   "o_dash", "o_da", "o_dash2",
   "o_p", "o_q", "o_u", "o_z",
   "o_xa", "o_xb", "o_c", "o_d",
   "o_r",
   "o_ca", "o_cb", "o_cc",
   "o_opt",
   "o_lo",
   "o_so", "o_sq", "o_sr",
   "o_gs", "o_gcol", "o_gt",
   "o_alpha", "o_beta", "o_n",
   "o_oa", "o_ob",
   "o_nabc", "o_na", "o_nval", "o_nb",
   "o_mo",
   "o_vf", "o_vr", "o_vn",
   "o_po", "o_pa",
   "o_two", "o_tn"}

Options ==
  [id \in OptionIds |->
    CASE id = "o_top"   -> [Opt(<<s_top, s_t>>) EXCEPT !.isPersistent = TRUE]
      [] id = "o_a"     -> Opt(<<s_a>>)
      [] id = "o_loc"   -> Opt(<<s_loc>>)
      [] id = "o_dash"  -> [Opt(<<s_dash>>) EXCEPT !.args = Args(<<Arg>>)]
      [] id = "o_da"    -> Opt(<<s_a>>)
      [] id = "o_dash2" -> [Opt(<<s_dash>>) EXCEPT !.args = Args(<<Arg>>)]
      [] id = "o_p"     -> [Opt(<<s_p>>) EXCEPT !.isPersistent = TRUE, !.isRequired = TRUE]
      [] id = "o_q"     -> [Opt(<<s_q>>) EXCEPT !.isRequired = TRUE]
      [] id = "o_u"     -> [Opt(<<s_u>>) EXCEPT !.isRequired = TRUE]
      [] id = "o_z"     -> [Opt(<<s_z>>) EXCEPT !.isRequired = TRUE]
      [] id = "o_xa"    -> [Opt(<<s_a>>) EXCEPT !.exclusiveOn = <<s_bee>>]
      [] id = "o_xb"    -> Opt(<<s_b, s_bee>>)
      [] id = "o_c"     -> [Opt(<<s_c>>) EXCEPT !.dependsOn = <<s_d>>]
      [] id = "o_d"     -> Opt(<<s_d>>)
      [] id = "o_r"     -> [Opt(<<s_r, s_rep>>) EXCEPT !.isRepeatable = RepeatN]
      [] id = "o_ca"    -> Opt(<<s_a>>)
      [] id = "o_cb"    -> [Opt(<<s_b>>) EXCEPT !.args = Args(<<Arg>>)]
      [] id = "o_cc"    -> Opt(<<s_c>>)
      [] id = "o_opt"   -> [Opt(<<s_opt>>) EXCEPT !.args = Args(<<OptionalArg>>),
                                                  !.requiresSeparator = SeparatorTrue]
      [] id = "o_lo"    -> [Opt(<<s_opt>>) EXCEPT !.args = Args(<<Arg>>)]
      [] id = "o_so"    -> [Opt(<<s_opt>>) EXCEPT !.args = Args(<<OptionalArg>>),
                                                  !.isPersistent = TRUE,
                                                  !.requiresSeparator = SeparatorTrue]
      [] id = "o_sq"    -> [Opt(<<s_req>>) EXCEPT !.args = Args(<<Arg>>),
                                                  !.requiresSeparator = SeparatorTrue]
      [] id = "o_sr"    -> [Opt(<<s_r, s_rep>>) EXCEPT !.isRepeatable = RepeatTrue]
      [] id = "o_gs"    -> [Opt(<<s_s>>) EXCEPT !.args = Args(<<Arg>>),
                                                !.requiresSeparator = SeparatorTrue]
      [] id = "o_gcol"  -> [Opt(<<s_col>>) EXCEPT !.args = Args(<<Arg>>),
                                                  !.requiresSeparator = SeparatorColon]
      [] id = "o_gt"    -> [Opt(<<s_t>>) EXCEPT !.args = Args(<<Arg>>),
                                                !.requiresSeparator = SeparatorColon]
      [] id = "o_alpha" -> [Opt(<<s_alpha>>) EXCEPT !.isPersistent = TRUE,
                                                    !.action = "act_alpha"]
      [] id = "o_beta"  -> [Opt(<<s_beta>>) EXCEPT !.isPersistent = TRUE,
                                                   !.action = "act_beta"]
      [] id = "o_n"     -> Opt(<<s_n>>)
      [] id = "o_oa"    -> Opt(<<s_a>>)
      [] id = "o_ob"    -> Opt(<<s_b>>)
      [] id = "o_nabc"  -> Opt(<<s_abc>>)
      [] id = "o_na"    -> Opt(<<s_a>>)
      [] id = "o_nval"  -> [Opt(<<s_val>>) EXCEPT !.args = Args(<<Arg>>)]
      [] id = "o_nb"    -> Opt(<<s_b>>)
      [] id = "o_mo"    -> [Opt(<<s_opt>>) EXCEPT !.args = Args(<<Arg>>)]
      [] id = "o_vf"    -> [Opt(<<s_files>>) EXCEPT
                              !.args = Args(<<[isOptional |-> FALSE, isVariadic |-> TRUE]>>)]
      [] id = "o_vr"    -> [Opt(<<s_r>>) EXCEPT !.isRepeatable = RepeatTrue]
      [] id = "o_vn"    -> Opt(<<s_n>>)
      [] id = "o_po"    -> [Opt(<<s_opt>>) EXCEPT !.args = Args(<<Arg>>),
                                                  !.isPersistent = TRUE]
      [] id = "o_pa"    -> Opt(<<s_a>>)
      [] id = "o_two"   -> [Opt(<<s_two>>) EXCEPT !.args = Args(<<Arg, Arg>>),
                                                  !.requiresSeparator = SeparatorTrue]
      [] id = "o_tn"    -> Opt(<<s_n>>)]

CommandIds ==
  {"main", "sub", "leaf", "dash", "dsub", "req", "rsub", "roth",
   "excl", "rep", "chain", "sepc",
   "long", "empty",
   "pfx", "k1", "kx", "ky", "k3", "k4",
   "sepr", "ssub", "seps",
   "act", "a1", "a2",
   "rs", "rs1",
   "omp", "osub", "npx", "nsub", "msep", "vari",
   "pers", "psub", "two"}

Commands ==
  [id \in CommandIds |->
    CASE id = "main"  -> [Cmd(<<<<"m">>>>) EXCEPT !.args = Args(<<OptionalArg, OptionalArg>>),
                                                 !.options = <<"o_top", "o_a">>,
                                                 !.subcommands = <<"sub">>,
                                                 !.action = "act_main"]
      [] id = "sub"   -> [Cmd(<<s_sub>>) EXCEPT !.options = <<"o_loc">>,
                                                !.subcommands = <<"leaf">>,
                                                !.args = Args(<<OptionalArg>>)]
      [] id = "leaf"  -> [Cmd(<<s_leaf>>) EXCEPT !.args = Args(<<OptionalArg>>),
                                                 !.action = "act_leaf"]
      [] id = "dash"  -> [Cmd(<<<<"d">>>>) EXCEPT !.options = <<"o_dash", "o_da">>,
                                                 !.subcommands = <<"dsub">>]
      [] id = "dsub"  -> [Cmd(<<s_sub>>) EXCEPT !.options = <<"o_dash2">>]
      [] id = "req"   -> [Cmd(<<<<"r">>>>) EXCEPT !.options = <<"o_p", "o_q">>,
                                                 !.subcommands = <<"rsub", "roth">>]
      [] id = "rsub"  -> [Cmd(<<s_sub>>) EXCEPT !.options = <<"o_u">>]
      [] id = "roth"  -> [Cmd(<<s_other>>) EXCEPT !.options = <<"o_z">>]
      [] id = "excl"  -> [Cmd(<<<<"e">>>>) EXCEPT !.options = <<"o_xa", "o_xb", "o_c", "o_d">>]
      [] id = "rep"   -> [Cmd(<<<<"p">>>>) EXCEPT !.options = <<"o_r">>]
      [] id = "chain" -> [Cmd(<<<<"c">>>>) EXCEPT !.options = <<"o_ca", "o_cb", "o_cc">>]
      [] id = "sepc"  -> [Cmd(<<<<"s">>>>) EXCEPT !.options = <<"o_opt">>,
                                                 !.args = Args(<<OptionalArg>>)]
      [] id = "long"  -> [Cmd(<<<<"l">>>>) EXCEPT !.options = <<"o_lo">>]
      [] id = "empty" -> Cmd(<<<<"e">>>>)
      [] id = "pfx"   -> [Cmd(<<<<"p">>>>) EXCEPT
                            !.subcommands = <<"k1", "kx", "ky", "k3", "k4">>,
                            !.parserDirectives.subcommandsMatchUniquePrefix = "true"]
      [] id = "k1"    -> Cmd(<<s_kab, s_kac>>)
      [] id = "kx"    -> Cmd(<<s_kxy, s_x>>)
      [] id = "ky"    -> Cmd(<<s_kxz>>)
      [] id = "k3"    -> Cmd(<<s_kbc>>)
      [] id = "k4"    -> Cmd(<<s_kbd>>)
      [] id = "sepr"  -> [Cmd(<<<<"s">>>>) EXCEPT !.options = <<"o_so", "o_sq", "o_sr">>,
                                                 !.subcommands = <<"ssub">>,
                                                 !.args = Args(<<OptionalArg>>)]
      [] id = "ssub"  -> [Cmd(<<s_sub>>) EXCEPT !.args = Args(<<OptionalArg>>)]
      [] id = "seps"  -> [Cmd(<<<<"s">>>>) EXCEPT
                            !.options = <<"o_gs", "o_gcol", "o_gt">>,
                            !.args = Args(<<OptionalArg>>),
                            !.parserDirectives.optionArgSeparators =
                               [set |-> TRUE, val |-> <<s_eq, s_colon>>]]
      [] id = "act"   -> [Cmd(<<<<"a">>>>) EXCEPT !.options = <<"o_alpha", "o_beta", "o_n">>,
                                                 !.subcommands = <<"a1">>,
                                                 !.args = Args(<<Arg>>),
                                                 !.action = "act_root"]
      [] id = "a1"    -> [Cmd(<<s_1>>) EXCEPT !.subcommands = <<"a2">>,
                                              !.args = Args(<<Arg>>)]
      [] id = "a2"    -> [Cmd(<<s_2>>) EXCEPT !.action = "act_2"]
      [] id = "rs"    -> [Cmd(<<<<"r">>>>) EXCEPT !.subcommands = <<"rs1">>,
                                                 !.requiresSubcommand = TRUE]
      [] id = "rs1"   -> [Cmd(<<s_sub>>) EXCEPT !.args = Args(<<OptionalArg>>),
                                                !.action = "act_rs1"]
      [] id = "omp"   -> [Cmd(<<<<"o">>>>) EXCEPT
                            !.options = <<"o_oa">>,
                            !.subcommands = <<"osub">>,
                            !.args = Args(<<OptionalArg, OptionalArg>>),
                            !.parserDirectives.optionsMustPrecedeArguments = "true"]
      [] id = "osub"  -> [Cmd(<<s_sub>>) EXCEPT
                            !.options = <<"o_ob">>,
                            !.args = Args(<<OptionalArg, OptionalArg>>),
                            !.parserDirectives.optionsMustPrecedeArguments = "false"]
      [] id = "npx"   -> [Cmd(<<<<"n">>>>) EXCEPT
                            !.options = <<"o_nabc", "o_na", "o_nval">>,
                            !.subcommands = <<"nsub">>,
                            !.args = Args(<<OptionalArg>>),
                            !.parserDirectives.flagsArePosixNoncompliant = "true"]
      [] id = "nsub"  -> [Cmd(<<s_sub>>) EXCEPT
                            !.options = <<"o_nb">>,
                            !.args = Args(<<OptionalArg>>),
                            !.parserDirectives.flagsArePosixNoncompliant = "false"]
      [] id = "msep"  -> [Cmd(<<<<"m">>>>) EXCEPT
                            !.options = <<"o_mo">>,
                            !.parserDirectives.optionArgSeparators =
                               [set |-> TRUE, val |-> <<s_eq, s_colon>>]]
      [] id = "vari"  -> [Cmd(<<<<"v">>>>) EXCEPT
                            !.options = <<"o_vf", "o_vr", "o_vn">>,
                            !.args = Args(<<OptionalArg>>)]
      [] id = "pers"  -> [Cmd(<<<<"p">>>>) EXCEPT
                            !.options = <<"o_po", "o_pa">>,
                            !.subcommands = <<"psub">>,
                            !.args = Args(<<OptionalArg, OptionalArg>>),
                            !.parserDirectives.optionsMustPrecedeArguments = "true"]
      [] id = "psub"  -> [Cmd(<<s_sub>>) EXCEPT !.args = Args(<<OptionalArg>>)]
      [] id = "two"   -> [Cmd(<<<<"t">>>>) EXCEPT
                            !.options = <<"o_two", "o_tn">>,
                            !.args = Args(<<OptionalArg>>)]]

\* The root specs that are parsed
Roots ==
  {"main", "dash", "req", "excl", "rep", "chain", "sepc",
   "long", "empty", "pfx", "sepr", "seps", "act", "rs",
   "omp", "npx", "msep", "vari", "pers", "two"}

\* The value strings given to -b of the "chain" spec
Values == {s_c1, <<"b">>, <<"c", "=", "d">>, <<>>, s_sep, s_eqc, s_a, s_dxy}

\* The input strings tried against each root
Alphabet(r) ==
  CASE r = "main"  -> {s_sep, s_a, s_top, s_t, s_sub, s_leaf, s_x, s_loc}
    [] r = "dash"  -> {s_dashx, s_a, s_sub, s_x}
    [] r = "req"   -> {s_p, s_q, s_u, s_sub, s_other}
    [] r = "excl"  -> {s_a, s_b, s_bee, s_ab, s_ba, s_c, s_d, s_cd}
    [] r = "rep"   -> {s_r, s_rep, s_rr}
    [] r = "chain" -> {s_a, s_b, s_ab, s_c1, s_sep}
    [] r = "sepc"  -> {s_opt, s_optv, s_v}
    [] r = "long"  -> {s_opt, s_optv, s_v}
    [] r = "empty" -> {s_x, s_dashx, s_sep, s_foo, s_empty}
    [] r = "pfx"   -> {s_ka, s_x, s_kxz, s_kb, s_kbc, s_kq}
    [] r = "sepr"  -> {s_opt, s_optv, s_req, s_r, s_repv, s_v, s_sub}
    [] r = "seps"  -> {s_sv, s_seqv, s_colcv, s_coleqv, s_tcv, s_tv, s_v}
    [] r = "act"   -> {s_alpha, s_beta, s_n, s_1, s_2, s_x}
    [] r = "rs"    -> {s_x, s_sub}
    [] r = "omp"   -> {s_a, s_b, s_x, s_sub, s_sep}
    [] r = "npx"   -> {s_abc, s_a, s_ab, s_valv, s_zzv, s_x, s_sub}
    [] r = "msep"  -> {s_opteac, s_optcae, s_optv, s_optcv}
    [] r = "vari"  -> {s_files, s_x, s_r, s_n, s_sep}
    [] r = "pers"  -> {s_opt, s_optv, s_v, s_sub, s_a}
    [] r = "two"   -> {s_twov, s_n, s_x}

\* The three ways of giving a value to -b after -a
ChainInputs(r) ==
  IF r = "chain"
  THEN UNION {{<<s_ab \o v>>, <<s_ab, v>>, <<s_a, s_b, v>>} : v \in Values}
  ELSE {}

\* The two ways of giving a value to --opt
LongInputs(r) ==
  IF r = "long"
  THEN UNION {{<<(s_opt \o s_eq) \o v>>, <<s_opt, v>>} : v \in Values}
  ELSE {}

\* A value for --files, another option, and one more token
VariadicInputs(r) ==
  IF r = "vari"
  THEN {<<s_files, s_x, o, s_x>> : o \in {s_r, s_n}}
  ELSE {}

Inputs(r) ==
  ((SeqsUpTo(Alphabet(r), MaxLen) \cup ChainInputs(r)) \cup LongInputs(r))
    \cup VariadicInputs(r)

\* ------------------------------------------------------------------------
\* analyze: tokens
\* One record shape for every token kind; the fields a kind does not have
\* stay at their defaults.  `option` holds the Option of an option token,
\* `optionName` the option string of an option-arg token.  validOptions is
\* carried as the set of the map keys (their order is not modelled).
\* ------------------------------------------------------------------------
BaseToken(kind, index, start, end, literal) ==
  [kind |-> kind, index |-> index, start |-> start, end |-> end,
   literal |-> literal, option |-> "", subcommand |-> "",
   optionName |-> <<>>, separator |-> <<>>, validOptions |-> {}]

TokenOptionArg(index, start, end, literal, option, separator) ==
  [BaseToken("option-arg", index, start, end, literal)
     EXCEPT !.optionName = option, !.separator = separator]

TokenUnknownOption(index, start, end, literal, validOptions) ==
  [BaseToken("unknown-option", index, start, end, literal)
     EXCEPT !.validOptions = validOptions]

TokenArg(index, start, end, literal) ==
  BaseToken("arg", index, start, end, literal)

TokenArgSeparator(index, start, end, literal) ==
  BaseToken("arg-separator", index, start, end, literal)

TokenSubcommand(index, start, end, literal, subcommand) ==
  [BaseToken("subcommand", index, start, end, literal)
     EXCEPT !.subcommand = subcommand]

TokenOption(index, start, end, literal, option) ==
  [BaseToken("option", index, start, end, literal) EXCEPT !.option = option]

\* ------------------------------------------------------------------------
\* analyze: the local state of one call
\* ------------------------------------------------------------------------
InitLex ==
  [index |-> 0, tokens |-> <<>>,
   localSubcommands |-> <<>>,
   localOptions |-> EmptyMap, persistentOptions |-> EmptyMap,
   localRequiredOptions |-> EmptyMap, persistentRequiredOptions |-> EmptyMap,
   separators |-> <<s_eq>>,
   hasFoundArg |-> FALSE,
   posixCompliantOptions |-> TRUE,
   subcommandsMatchUniquePrefix |-> FALSE,
   optionsMustPrecedeArguments |-> FALSE,
   hasUsedNonPersistentOption |-> FALSE]

getOption(lex, name) ==
  IF MapHas(lex.localOptions, name) THEN lex.localOptions[name]
  ELSE IF MapHas(lex.persistentOptions, name) THEN lex.persistentOptions[name]
  ELSE ""

hasOption(lex, name) ==
  MapHas(lex.localOptions, name) \/ MapHas(lex.persistentOptions, name)

\* The keys of both option maps, as spread into validOptions
ValidOptions(lex) == (DOMAIN lex.localOptions) \cup (DOMAIN lex.persistentOptions)

\* How one command's names answer a token in prefix mode: the names are
\* tried in order, the first name that is equal to the token or starts with
\* it decides
RECURSIVE NameScan(_, _)
NameScan(names, name) ==
  IF names = <<>> THEN "none"
  ELSE IF Head(names) = name THEN "exact"
  ELSE IF StartsWith(Head(names), name) THEN "prefix"
  ELSE NameScan(Tail(names), name)

\* PrefixScan without `continue commands`: every name that starts with the
\* token adds its command to the matches
RECURSIVE NamesCounted(_, _, _, _)
NamesCounted(names, name, command, matching) ==
  IF names = <<>> THEN [exact |-> FALSE, matching |-> matching]
  ELSE IF Head(names) = name THEN [exact |-> TRUE, matching |-> matching]
  ELSE NamesCounted(Tail(names), name, command,
         IF StartsWith(Head(names), name) THEN Append(matching, command) ELSE matching)

RECURSIVE PrefixScanCountingNames(_, _, _)
PrefixScanCountingNames(commands, name, matchingPrefixCommands) ==
  IF commands = <<>>
  THEN IF Len(matchingPrefixCommands) # 1 THEN "" ELSE matchingPrefixCommands[1]
  ELSE LET scan == NamesCounted(Commands[Head(commands)].name, name, Head(commands),
                                matchingPrefixCommands)
       IN IF scan.exact THEN Head(commands)
          ELSE PrefixScanCountingNames(Tail(commands), name, scan.matching)

\* The loop over localSubcommands in prefix mode
RECURSIVE PrefixScan(_, _, _)
PrefixScan(commands, name, matchingPrefixCommands) ==
  IF commands = <<>>
  THEN IF Len(matchingPrefixCommands) # 1 THEN "" ELSE matchingPrefixCommands[1]
  ELSE LET hit == NameScan(Commands[Head(commands)].name, name)
       IN IF hit = "exact" THEN Head(commands)
          ELSE PrefixScan(Tail(commands), name,
                 IF hit = "prefix" THEN Append(matchingPrefixCommands, Head(commands))
                 ELSE matchingPrefixCommands)

\* localSubcommands.find(...) for exact matches
RECURSIVE ExactScan(_, _)
ExactScan(commands, name) ==
  IF commands = <<>> THEN ""
  ELSE IF name \in Range(Commands[Head(commands)].name) THEN Head(commands)
  ELSE ExactScan(Tail(commands), name)

\* "" stands for null
getSubcommand(lex, name) ==
  IF lex.localSubcommands = <<>> THEN ""
  ELSE IF ~lex.subcommandsMatchUniquePrefix THEN ExactScan(lex.localSubcommands, name)
  ELSE PrefixScan(lex.localSubcommands, name, <<>>)

\* The loop over command.options that fills the four option maps
RECURSIVE RegisterOptions(_, _)
RegisterOptions(lex, options) ==
  IF options = <<>> THEN lex
  ELSE LET id == Head(options)
           option == Options[id]
           next ==
             IF option.isPersistent
             THEN [lex EXCEPT
                     !.persistentOptions = setEach(@, option.name, id),
                     !.persistentRequiredOptions =
                        IF option.isRequired THEN setEach(@, option.name, id) ELSE @]
             ELSE [lex EXCEPT
                     !.localOptions = setEach(@, option.name, id),
                     !.localRequiredOptions =
                        IF option.isRequired THEN setEach(@, option.name, id) ELSE @]
       IN RegisterOptions(next, Tail(options))

updateCurrentCommand(lex, command) ==
  LET registered == RegisterOptions(lex, Commands[command].options)
      directives == Commands[command].parserDirectives
  IN [registered EXCEPT
        !.localSubcommands = Commands[command].subcommands,
        !.separators =
           IF directives.optionArgSeparators.set
           THEN directives.optionArgSeparators.val ELSE @,
        !.subcommandsMatchUniquePrefix =
           IF directives.subcommandsMatchUniquePrefix = "true" THEN TRUE ELSE @,
        !.optionsMustPrecedeArguments =
           IF directives.optionsMustPrecedeArguments = "true" THEN TRUE ELSE @,
        !.posixCompliantOptions =
           IF directives.flagsArePosixNoncompliant \in {"true", "false"}
           THEN directives.flagsArePosixNoncompliant = "false" ELSE @]

\* The result for the empty input: the maps of the root's own options
AnalyzeEmptyInput(spec) == RegisterOptions(InitLex, Commands[spec].options)

\* ------------------------------------------------------------------------
\* analyze: one iteration of the `tokens:` loop
\* ------------------------------------------------------------------------
\* The arg tokens pushed for input[from..] after "--"
RECURSIVE RestAsArgs(_, _)
RestAsArgs(input, from) ==
  IF from >= Len(input) THEN <<>>
  ELSE <<TokenArg(from, 0, Len(input[from + 1]), input[from + 1])>>
         \o RestAsArgs(input, from + 1)

\* ArgSeparatorStep without the inner loop over the remaining input: the
\* outer loop goes on with the next token
ArgSeparatorStepResuming(lex, input) ==
  LET token == input[lex.index + 1]
  IN [lex EXCEPT
        !.tokens = Append(@, TokenArgSeparator(lex.index, 0, Len(token), token)),
        !.index = @ + 1]

\* token === "--": the separator, then every later input as an arg; the
\* loop is left
ArgSeparatorStep(lex, input) ==
  LET token == input[lex.index + 1]
  IN [lex EXCEPT
        !.tokens = (@ \o <<TokenArgSeparator(lex.index, 0, Len(token), token)>>)
                      \o RestAsArgs(input, lex.index + 1),
        !.index = Len(input)]

\* 1. the token is matched as a subcommand
SubcommandCond(lex, token) ==
  /\ ~lex.hasFoundArg
  /\ ~lex.hasUsedNonPersistentOption
  /\ lex.localSubcommands # <<>>
  /\ getSubcommand(lex, token) # ""

\* SubcommandStep clearing the persistent maps along with the local ones
SubcommandStepClearingAll(lex, input) ==
  LET token == input[lex.index + 1]
      command == getSubcommand(lex, token)
      cleared == [lex EXCEPT !.localOptions = EmptyMap,
                             !.persistentOptions = EmptyMap,
                             !.persistentRequiredOptions = EmptyMap]
      updated == updateCurrentCommand(cleared, command)
  IN [updated EXCEPT
        !.tokens = Append(@, TokenSubcommand(lex.index, 0, Len(token), token, command)),
        !.index = @ + 1]

\* SubcommandStep without localOptions.clear()
SubcommandStepKeepingLocal(lex, input) ==
  LET token == input[lex.index + 1]
      command == getSubcommand(lex, token)
      updated == updateCurrentCommand(lex, command)
  IN [updated EXCEPT
        !.tokens = Append(@, TokenSubcommand(lex.index, 0, Len(token), token, command)),
        !.index = @ + 1]

SubcommandStep(lex, input) ==
  LET token == input[lex.index + 1]
      command == getSubcommand(lex, token)
      cleared == [lex EXCEPT !.localOptions = EmptyMap]
      updated == updateCurrentCommand(cleared, command)
  IN [updated EXCEPT
        !.tokens = Append(@, TokenSubcommand(lex.index, 0, Len(token), token, command)),
        !.index = @ + 1]

\* OptionsAllowed with the condition of line 386 left out
OptionsAllowedAlways(lex) == TRUE

\* 2. options are tried at all
OptionsAllowed(lex) == ~(lex.optionsMustPrecedeArguments /\ lex.hasFoundArg)

\* ShortCond without the posixCompliantOptions check
ShortCondIgnoringCompliance(lex, token) ==
  /\ Len(token) > 1
  /\ (StartsWith(token, <<"-">>) \/ StartsWith(token, <<"+">>))
  /\ ~StartsWith(token, s_sep)

\* The token is a short option or a chain of short options
ShortCond(lex, token) ==
  /\ lex.posixCompliantOptions
  /\ Len(token) > 1
  /\ (StartsWith(token, <<"-">>) \/ StartsWith(token, <<"+">>))
  /\ ~StartsWith(token, s_sep)

\* 2.a. a bare `-` or `+` option with the value attached
DashCond(lex, token) ==
  LET dashOption == getOption(lex, <<token[1]>>)
  IN /\ dashOption # ""
     /\ Options[dashOption].args.def
     /\ ~hasOption(lex, Slice2(token, 0, 2))

DashStep(lex, input) ==
  LET token == input[lex.index + 1]
      leadingChar == <<token[1]>>
      dashOption == getOption(lex, leadingChar)
  IN [lex EXCEPT
        !.tokens = @ \o <<TokenOption(lex.index, 0, 1, leadingChar, dashOption),
                          TokenOptionArg(lex.index, 1, Len(token), Slice(token, 1),
                                         leadingChar, <<>>)>>,
        !.index = @ + 1]

\* separators.find((sep) => remainingChars.startsWith(sep)) || ""
RECURSIVE FindLeadingSep(_, _)
FindLeadingSep(separators, remainingChars) ==
  IF separators = <<>> THEN <<>>
  ELSE IF StartsWith(remainingChars, Head(separators)) THEN Head(separators)
  ELSE FindLeadingSep(Tail(separators), remainingChars)

\* ChainedOptionArg with the slice starting one character early
ChainedOptionArgOffByOne(lex, token, char, optionName) ==
  LET remainingChars == Slice(token, char + 1)
      sep == FindLeadingSep(lex.separators, remainingChars)
      argStartOffset == char + Len(sep)
  IN TokenOptionArg(lex.index, argStartOffset, Len(token),
                    Slice(token, argStartOffset), optionName, sep)

\* The option-arg token for the rest of a chain after the option at
\* position char
ChainedOptionArg(lex, token, char, optionName) ==
  LET remainingChars == Slice(token, char + 1)
      sep == FindLeadingSep(lex.separators, remainingChars)
      argStartOffset == char + Len(sep)
  IN TokenOptionArg(lex.index, argStartOffset + 1, Len(token),
                    Slice(token, argStartOffset + 1), optionName, sep)

\* 2.b. the `chars:` loop, from position char (0-based) to the end
RECURSIVE ChainedChars(_, _, _)
ChainedChars(lex, token, char) ==
  IF char >= Len(token) THEN lex
  ELSE
    LET optionName == <<token[1], token[char + 1]>>
        option == getOption(lex, optionName)
    IN IF option = ""
       THEN ChainedChars(
              [lex EXCEPT !.tokens = Append(@,
                 TokenUnknownOption(lex.index, char, char + 1, optionName,
                                    ValidOptions(lex)))],
              token, char + 1)
       ELSE
         LET used == [lex EXCEPT
                        !.hasUsedNonPersistentOption =
                           IF ~@ /\ ~Options[option].isPersistent THEN TRUE ELSE @,
                        !.tokens = Append(@,
                           TokenOption(lex.index, char, char + 1, optionName, option))]
         IN IF Options[option].args.def /\ char < Len(token) - 1
            THEN [used EXCEPT !.tokens =
                    Append(@, ChainedOptionArg(lex, token, char, optionName))]
            ELSE ChainedChars(used, token, char + 1)

ChainedStep(lex, input) ==
  [ChainedChars(lex, input[lex.index + 1], 1) EXCEPT !.index = @ + 1]

\* The `separators:` loop: every separator that occurs in the token
\* overwrites the one found before
RECURSIVE FindSep(_, _, _)
FindSep(separators, token, found) ==
  IF separators = <<>> THEN found
  ELSE LET index == IndexOf(token, Head(separators))
       IN FindSep(Tail(separators), token,
            IF index = -1 THEN found
            ELSE [isNull |-> FALSE, foundSep |-> Head(separators), foundSepIndex |-> index])

NoSep == [isNull |-> TRUE, foundSep |-> <<>>, foundSepIndex |-> -1]

\* 2.c. is entered
LongCond(lex, token) ==
  \/ ~lex.posixCompliantOptions
  \/ (Len(token) > 2 /\ StartsWith(token, s_sep))

\* LongTokens with the inline value starting at the separator
LongTokensKeepingSeparator(lex, token) ==
  LET found == FindSep(lex.separators, token, NoSep)
      index == lex.index
  IN IF ~found.isNull /\ found.foundSep # <<>>
     THEN LET optionName == Slice2(token, 0, found.foundSepIndex)
              option == getOption(lex, optionName)
              optionArg == TokenOptionArg(index, found.foundSepIndex, Len(token),
                              Slice(token, found.foundSepIndex),
                              optionName, found.foundSep)
          IN IF option # ""
             THEN <<TokenOption(index, 0, found.foundSepIndex, optionName, option),
                    optionArg>>
             ELSE IF lex.posixCompliantOptions
             THEN <<TokenUnknownOption(index, 0, found.foundSepIndex, optionName,
                                       ValidOptions(lex)),
                    optionArg>>
             ELSE <<>>
     ELSE LET option == getOption(lex, token)
          IN IF option # ""
             THEN <<TokenOption(index, 0, Len(token), token, option)>>
             ELSE IF lex.posixCompliantOptions
             THEN <<TokenUnknownOption(index, 0, Len(token), token, ValidOptions(lex))>>
             ELSE <<>>

\* The tokens 2.c. pushes; none when it falls through to the arg handling
LongTokens(lex, token) ==
  LET found == FindSep(lex.separators, token, NoSep)
      index == lex.index
  IN IF ~found.isNull /\ found.foundSep # <<>>
     THEN LET optionName == Slice2(token, 0, found.foundSepIndex)
              option == getOption(lex, optionName)
              optionArg == TokenOptionArg(index,
                              found.foundSepIndex + Len(found.foundSep), Len(token),
                              Slice(token, found.foundSepIndex + Len(found.foundSep)),
                              optionName, found.foundSep)
          IN IF option # ""
             THEN <<TokenOption(index, 0, found.foundSepIndex, optionName, option),
                    optionArg>>
             ELSE IF lex.posixCompliantOptions
             THEN <<TokenUnknownOption(index, 0, found.foundSepIndex, optionName,
                                       ValidOptions(lex)),
                    optionArg>>
             ELSE <<>>
     ELSE LET option == getOption(lex, token)
          IN IF option # ""
             THEN <<TokenOption(index, 0, Len(token), token, option)>>
             ELSE IF lex.posixCompliantOptions
             THEN <<TokenUnknownOption(index, 0, Len(token), token, ValidOptions(lex))>>
             ELSE <<>>

LongStep(lex, input) ==
  LET pushed == LongTokens(lex, input[lex.index + 1])
  IN [lex EXCEPT
        !.hasUsedNonPersistentOption =
           IF /\ ~@
              /\ pushed[1].kind = "option"
              /\ ~Options[pushed[1].option].isPersistent
           THEN TRUE ELSE @,
        !.tokens = @ \o pushed,
        !.index = @ + 1]

\* ArgStep that pushes no token
ArgStepDroppingToken(lex, input) ==
  [lex EXCEPT !.hasFoundArg = TRUE, !.index = @ + 1]

\* The token is a positional argument
ArgStep(lex, input) ==
  LET token == input[lex.index + 1]
  IN [lex EXCEPT
        !.hasFoundArg = TRUE,
        !.tokens = Append(@, TokenArg(lex.index, 0, Len(token), token)),
        !.index = @ + 1]

\* Which branch of the loop body handles input[lex.index]
Branch(lex, input) ==
  LET token == input[lex.index + 1]
  IN IF token = s_sep THEN "arg-separator"
     ELSE IF SubcommandCond(lex, token) THEN "subcommand"
     ELSE IF ~OptionsAllowed(lex) THEN "arg"
     ELSE IF ShortCond(lex, token)
     THEN (IF DashCond(lex, token) THEN "dash" ELSE "chained")
     ELSE IF LongCond(lex, token) /\ LongTokens(lex, token) # <<>> THEN "long"
     ELSE "arg"

\* One iteration of the loop
AnalyzeToken(lex, input) ==
  LET branch == Branch(lex, input)
  IN CASE branch = "arg-separator" -> ArgSeparatorStep(lex, input)
       [] branch = "subcommand"    -> SubcommandStep(lex, input)
       [] branch = "dash"          -> DashStep(lex, input)
       [] branch = "chained"       -> ChainedStep(lex, input)
       [] branch = "long"          -> LongStep(lex, input)
       [] OTHER                    -> ArgStep(lex, input)

\* The whole loop, from the state lex
RECURSIVE AnalyzeFrom(_, _)
AnalyzeFrom(lex, input) ==
  IF lex.index >= Len(input) THEN lex
  ELSE AnalyzeFrom(AnalyzeToken(lex, input), input)

\* analyze(input, spec): the final state, tokens included
analyze(input, spec) ==
  IF Len(input) = 0 THEN AnalyzeEmptyInput(spec)
  ELSE AnalyzeFrom(updateCurrentCommand(InitLex, spec), input)

\* ------------------------------------------------------------------------
\* parse: helpers
\* ------------------------------------------------------------------------
\* makeArray on an `args` property
makeArray(args) == IF args.def THEN args.list ELSE <<>>

RECURSIVE getMinArgs(_)
getMinArgs(args) ==
  IF args = <<>> \/ Head(args).isOptional THEN 0
  ELSE 1 + getMinArgs(Tail(args))

getMaxArgs(args) ==
  IF \E i \in 1..Len(args) : args[i].isVariadic THEN Infinity ELSE Len(args)

\* has without the isArray branch: a list of names is never a key
hasWithoutArrayCase(map, key) == IF Len(key) > 1 THEN FALSE ELSE MapHas(map, Head(key))

\* has / get on foundOptions: an option is looked up by its first name
has(map, key) == MapHas(map, Head(key))

\* 0 stands for undefined
get(map, key) == IF MapHas(map, Head(key)) THEN map[Head(key)] ELSE 0

NoError == [kind |-> "", message |-> ""]

\* ------------------------------------------------------------------------
\* parse: the local state of one call.  The value arrays of foundOptions
\* are objects shared between the aliases of an option and optionArgs:
\* `arrays` is the store of these arrays and foundOptions / optionArgs hold
\* positions in it (optionArgs = 0 is null).
\* ------------------------------------------------------------------------
CommandActions(command) ==
  IF Commands[command].action # "" THEN <<Commands[command].action>>
  ELSE IF Commands[command].requiresSubcommand THEN <<"builtinUsageAction">>
  ELSE <<>>

InitParse(spec) ==
  [path |-> <<spec>>,
   actions |-> CommandActions(spec),
   optionActions |-> <<>>,
   commandArgsMin |-> getMinArgs(makeArray(Commands[spec].args)),
   commandArgsMax |-> getMaxArgs(makeArray(Commands[spec].args)),
   foundArgs |-> <<>>,
   foundOptions |-> EmptyMap,
   arrays |-> <<>>,
   state |-> "ParseArgs",
   optionArgs |-> 0,
   optionArgsMin |-> 0,
   optionArgsMax |-> 0,
   requiredSeparator |-> NoSeparator,
   argSeparatorIndex |-> -1,
   dependsOnOptions |-> <<>>,
   exclusiveOnOptions |-> <<>>,
   cursor |-> 0,
   error |-> NoError]

Throw(ps, kind, message) == [ps EXCEPT !.error = [kind |-> kind, message |-> message]]

\* ParseRepeatable comparing with > instead of >=
ParseRepeatableOffByOne(ps, option) ==
  LET maxRepeat == IF option.isRepeatable = RepeatTrue THEN Infinity
                   ELSE option.isRepeatable
      known == get(ps.foundOptions, option.name)
      arr == IF known = 0 THEN Len(ps.arrays) + 1 ELSE known
      stored == IF known = 0
                THEN [ps EXCEPT !.arrays = Append(@, <<>>),
                                !.foundOptions = setEach(@, option.name, arr)]
                ELSE ps
  IN IF Len(stored.arrays[arr]) > maxRepeat
     THEN Throw(stored, "ParseError", "Too many repetitions")
     ELSE [stored EXCEPT !.arrays[arr] = Append(@, <<>>)]

\* ParseRepeatable that drops the array of the open option and leaves the
\* state as it is
ParseRepeatableClosingOption(ps, option) ==
  LET maxRepeat == IF option.isRepeatable = RepeatTrue THEN Infinity
                   ELSE option.isRepeatable
      known == get(ps.foundOptions, option.name)
      arr == IF known = 0 THEN Len(ps.arrays) + 1 ELSE known
      stored == IF known = 0
                THEN [ps EXCEPT !.arrays = Append(@, <<>>),
                                !.foundOptions = setEach(@, option.name, arr)]
                ELSE ps
  IN IF Len(stored.arrays[arr]) >= maxRepeat
     THEN Throw(stored, "ParseError", "Too many repetitions")
     ELSE [stored EXCEPT !.arrays[arr] = Append(@, <<>>), !.optionArgs = 0]

\* The repeatable branch of parseOption; ps already holds the pushes to
\* exclusiveOnOptions, dependsOnOptions and optionActions
ParseRepeatable(ps, option) ==
  LET maxRepeat == IF option.isRepeatable = RepeatTrue THEN Infinity
                   ELSE option.isRepeatable
      known == get(ps.foundOptions, option.name)
      arr == IF known = 0 THEN Len(ps.arrays) + 1 ELSE known
      stored == IF known = 0
                THEN [ps EXCEPT !.arrays = Append(@, <<>>),
                                !.foundOptions = setEach(@, option.name, arr)]
                ELSE ps
  IN IF Len(stored.arrays[arr]) >= maxRepeat
     THEN Throw(stored, "ParseError", "Too many repetitions")
     ELSE [stored EXCEPT !.arrays[arr] = Append(@, <<>>)]

\* NoteOption without the push to dependsOnOptions
NoteOptionWithoutDependsOn(ps, id) ==
  LET option == Options[id]
  IN [ps EXCEPT
        !.exclusiveOnOptions =
           IF option.exclusiveOn # <<>> THEN Append(@, id) ELSE @,
        !.optionActions =
           IF option.action # "" THEN Append(@, option.action) ELSE @]

\* parseOption: the option is noted for the checks after the loop and its
\* action is collected
NoteOption(ps, id) ==
  LET option == Options[id]
  IN [ps EXCEPT
        !.exclusiveOnOptions =
           IF option.exclusiveOn # <<>> THEN Append(@, id) ELSE @,
        !.dependsOnOptions =
           IF option.dependsOn # <<>> THEN Append(@, id) ELSE @,
        !.optionActions =
           IF option.action # "" THEN Append(@, option.action) ELSE @]

parseOption(ps, token) ==
  LET option == Options[token.option]
      noted == NoteOption(ps, token.option)
      args == makeArray(option.args)
      optionArgs == Len(ps.arrays) + 1
      opened == [noted EXCEPT
                   !.optionArgsMin = getMinArgs(args),
                   !.optionArgsMax = getMaxArgs(args),
                   !.arrays = Append(@, <<>>),
                   !.optionArgs = optionArgs,
                   !.foundOptions = setEach(@, option.name, optionArgs)]
  IN IF option.isRepeatable = 0 /\ has(ps.foundOptions, option.name)
     THEN Throw(ps, "ParseError", "Repeated option")
     ELSE IF option.isRepeatable # 0 THEN ParseRepeatable(noted, option)
     ELSE IF opened.optionArgsMax = 0
     THEN [opened EXCEPT !.optionArgs = 0, !.state = "ParseArgs"]
     ELSE IF option.requiresSeparator.truthy
     THEN [opened EXCEPT !.state = "ParseOptionArgRequireSeparator",
                         !.requiredSeparator = option.requiresSeparator]
     ELSE [opened EXCEPT !.state = "ParseOptionArgs"]

\* parseArg comparing with > instead of >=
parseArgOffByOne(ps, token) ==
  IF /\ ~Commands[ps.path[Len(ps.path)]].requiresSubcommand
     /\ Len(ps.foundArgs) > ps.commandArgsMax
  THEN Throw(ps, "TooManyArguments", "Too many arguments")
  ELSE [ps EXCEPT !.foundArgs = Append(@, token.literal)]

parseArg(ps, token) ==
  IF /\ ~Commands[ps.path[Len(ps.path)]].requiresSubcommand
     /\ Len(ps.foundArgs) >= ps.commandArgsMax
  THEN Throw(ps, "TooManyArguments", "Too many arguments")
  ELSE [ps EXCEPT !.foundArgs = Append(@, token.literal)]

\* parseArgSeparator recording the position after the next positional
parseArgSeparatorCountingFromOne(ps) ==
  IF Len(ps.foundArgs) >= ps.commandArgsMax
  THEN Throw(ps, "ParseError", "Unexpected argument '--'")
  ELSE [ps EXCEPT !.argSeparatorIndex = Len(ps.foundArgs) + 1, !.state = "ParseArgs"]

\* parseArgSeparator without the check of the maximum
parseArgSeparatorUnchecked(ps) ==
  [ps EXCEPT !.argSeparatorIndex = Len(ps.foundArgs), !.state = "ParseArgs"]

\* parseArgSeparator comparing with > instead of >=
parseArgSeparatorStrict(ps) ==
  IF Len(ps.foundArgs) > ps.commandArgsMax
  THEN Throw(ps, "ParseError", "Unexpected argument '--'")
  ELSE [ps EXCEPT !.argSeparatorIndex = Len(ps.foundArgs), !.state = "ParseArgs"]

parseArgSeparator(ps) ==
  IF Len(ps.foundArgs) >= ps.commandArgsMax
  THEN Throw(ps, "ParseError", "Unexpected argument '--'")
  ELSE [ps EXCEPT !.argSeparatorIndex = Len(ps.foundArgs), !.state = "ParseArgs"]

\* parseCommand with actions.unshift in place of actions.push
parseCommandPrepending(ps, token) ==
  LET args == makeArray(Commands[token.subcommand].args)
  IN [ps EXCEPT
        !.path = Append(@, token.subcommand),
        !.commandArgsMin = getMinArgs(args),
        !.commandArgsMax = getMaxArgs(args),
        !.actions = CommandActions(token.subcommand) \o @]

parseCommand(ps, token) ==
  LET args == makeArray(Commands[token.subcommand].args)
  IN [ps EXCEPT
        !.path = Append(@, token.subcommand),
        !.commandArgsMin = getMinArgs(args),
        !.commandArgsMax = getMaxArgs(args),
        !.actions = @ \o CommandActions(token.subcommand)]

TooFewOptionArguments(ps) == Throw(ps, "TooFewOptionArguments", "Option needs arguments")

\* optionArgs.push(literal)
PushOptionArg(ps, literal) == [ps EXCEPT !.arrays[ps.optionArgs] = Append(@, literal)]

\* case State.ParseArgs
\* ParseArgsCase binding an unknown-option token as a positional
ParseArgsCaseBindingUnknown(ps, token) ==
  CASE token.kind = "subcommand"     -> parseCommand(ps, token)
    [] token.kind = "arg"            -> parseArg(ps, token)
    [] token.kind = "option"         -> parseOption(ps, token)
    [] token.kind = "unknown-option" -> parseArg(ps, token)
    [] token.kind = "option-arg"     -> Throw(ps, "InvalidOptionArg", "doesn't take arguments")
    [] token.kind = "arg-separator"  -> parseArgSeparator(ps)
    [] OTHER                         -> Throw(ps, "ParseError", "Unreachable")

ParseArgsCase(ps, token) ==
  CASE token.kind = "subcommand"     -> parseCommand(ps, token)
    [] token.kind = "arg"            -> parseArg(ps, token)
    [] token.kind = "option"         -> parseOption(ps, token)
    [] token.kind = "unknown-option" -> Throw(ps, "UnknownOption", "unknown option")
    [] token.kind = "option-arg"     -> Throw(ps, "InvalidOptionArg", "doesn't take arguments")
    [] token.kind = "arg-separator"  -> parseArgSeparator(ps)
    [] OTHER                         -> Throw(ps, "ParseError", "Unreachable")

\* ParseOptionArgsCase comparing with <= instead of <
ParseOptionArgsCaseOffByOne(ps, token) ==
  IF ps.optionArgs = 0
  THEN Throw(ps, "Error", "Invalid state, must have an array to store option arguments")
  ELSE
    LET length == Len(ps.arrays[ps.optionArgs])
    IN CASE token.kind \in {"option-arg", "arg"} ->
              IF length <= ps.optionArgsMax
              THEN PushOptionArg(ps, token.literal)
              ELSE parseArg([ps EXCEPT !.optionArgs = 0, !.state = "ParseArgs"], token)
         [] token.kind = "option" ->
              IF length < ps.optionArgsMin
              THEN TooFewOptionArguments(ps)
              ELSE parseOption(ps, token)
         [] token.kind = "unknown-option" ->
              IF length <= ps.optionArgsMax
              THEN PushOptionArg(ps, token.literal)
              ELSE Throw(ps, "UnknownOption", "unknown option")
         [] token.kind = "arg-separator" ->
              IF length < ps.optionArgsMin
              THEN TooFewOptionArguments(ps)
              ELSE parseArgSeparator(ps)
         [] token.kind = "subcommand" -> Throw(ps, "ParseError", "Unexpected token")
         [] OTHER -> Throw(ps, "ParseError", "Unreachable")

\* case State.ParseOptionArgs
ParseOptionArgsCase(ps, token) ==
  IF ps.optionArgs = 0
  THEN Throw(ps, "Error", "Invalid state, must have an array to store option arguments")
  ELSE
    LET length == Len(ps.arrays[ps.optionArgs])
    IN CASE token.kind \in {"option-arg", "arg"} ->
              IF length < ps.optionArgsMax
              THEN PushOptionArg(ps, token.literal)
              ELSE parseArg([ps EXCEPT !.optionArgs = 0, !.state = "ParseArgs"], token)
         [] token.kind = "option" ->
              IF length < ps.optionArgsMin
              THEN TooFewOptionArguments(ps)
              ELSE parseOption(ps, token)
         [] token.kind = "unknown-option" ->
              IF length < ps.optionArgsMax
              THEN PushOptionArg(ps, token.literal)
              ELSE Throw(ps, "UnknownOption", "unknown option")
         [] token.kind = "arg-separator" ->
              IF length < ps.optionArgsMin
              THEN TooFewOptionArguments(ps)
              ELSE parseArgSeparator(ps)
         [] token.kind = "subcommand" -> Throw(ps, "ParseError", "Unexpected token")
         [] OTHER -> Throw(ps, "ParseError", "Unreachable")

\* case State.ParseOptionArgRequireSeparator
ParseOptionArgRequireSeparatorCase(ps, token) ==
  IF ps.optionArgs = 0
  THEN Throw(ps, "Error", "Invalid state, must have an array to store option arguments")
  ELSE IF ~ps.requiredSeparator.truthy
  THEN Throw(ps, "Error", "Invalid state, a separator must be set")
  ELSE
    CASE token.kind = "option-arg" ->
           IF /\ ps.requiredSeparator.isString
              /\ token.separator # ps.requiredSeparator.str
           THEN Throw(ps, "ParseError", "Incorrect separator")
           ELSE [PushOptionArg(ps, token.literal) EXCEPT !.state = "ParseArgs"]
      [] token.kind = "arg" ->
           IF ps.optionArgsMin > 0
           THEN TooFewOptionArguments(ps)
           ELSE parseArg([ps EXCEPT !.optionArgs = 0, !.state = "ParseArgs"], token)
      [] token.kind = "option" ->
           IF ps.optionArgsMin > 0
           THEN TooFewOptionArguments(ps)
           ELSE parseOption(ps, token)
      [] token.kind = "unknown-option" -> Throw(ps, "UnknownOption", "unknown option")
      [] token.kind = "arg-separator" -> Throw(ps, "ParseError", "Unexpected token")
      [] token.kind = "subcommand" ->
           IF ps.optionArgsMin > 0
           THEN TooFewOptionArguments(ps)
           ELSE LET pushed == parseCommand(ps, token)
                IN [pushed EXCEPT !.state = "ParseArgs"]
      [] OTHER -> Throw(ps, "ParseError", "Unreachable")

\* One iteration of `for (const token of tokens)`
ParseToken(ps, tokens) ==
  LET token == tokens[ps.cursor + 1]
      handled ==
        CASE ps.state = "ParseArgs" -> ParseArgsCase(ps, token)
          [] ps.state = "ParseOptionArgs" -> ParseOptionArgsCase(ps, token)
          [] OTHER -> ParseOptionArgRequireSeparatorCase(ps, token)
  IN [handled EXCEPT !.cursor = @ + 1]

\* Some name of the list is (when present) or is not (when ~present) a key
\* of foundOptions
AnyName(ps, options, field, present) ==
  \E i \in 1..Len(options) :
    \E j \in 1..Len(Options[options[i]][field]) :
      MapHas(ps.foundOptions, Options[options[i]][field][j]) = present

\* FinalChecks demanding the minimum of positionals whatever option
\* actions were collected
FinalChecksIgnoringActions(ps, finalState) ==
  IF Len(ps.foundArgs) < ps.commandArgsMin
  THEN Throw(ps, "TooFewArguments", "Expected arguments")
  ELSE IF ps.optionArgs # 0 /\ Len(ps.arrays[ps.optionArgs]) < ps.optionArgsMin
  THEN TooFewOptionArguments(ps)
  ELSE IF AnyName(ps, ps.dependsOnOptions, "dependsOn", FALSE)
  THEN Throw(ps, "ParseError", "requires")
  ELSE IF AnyName(ps, ps.exclusiveOnOptions, "exclusiveOn", TRUE)
  THEN Throw(ps, "ParseError", "can't be used together")
  ELSE IF \E name \in DOMAIN finalState.localRequiredOptions :
            ~MapHas(ps.foundOptions, name)
  THEN Throw(ps, "MissingRequiredOption", "is required")
  ELSE IF \E name \in DOMAIN finalState.persistentRequiredOptions :
            ~MapHas(ps.foundOptions, name)
  THEN Throw(ps, "MissingRequiredOption", "is required")
  ELSE ps

\* The checks after the loop.  The name carried by MissingRequiredOption is
\* the first missing key in insertion order and is not modelled.
FinalChecks(ps, finalState) ==
  IF Len(ps.optionActions) = 0 /\ Len(ps.foundArgs) < ps.commandArgsMin
  THEN Throw(ps, "TooFewArguments", "Expected arguments")
  ELSE IF ps.optionArgs # 0 /\ Len(ps.arrays[ps.optionArgs]) < ps.optionArgsMin
  THEN TooFewOptionArguments(ps)
  ELSE IF AnyName(ps, ps.dependsOnOptions, "dependsOn", FALSE)
  THEN Throw(ps, "ParseError", "requires")
  ELSE IF AnyName(ps, ps.exclusiveOnOptions, "exclusiveOn", TRUE)
  THEN Throw(ps, "ParseError", "can't be used together")
  ELSE IF \E name \in DOMAIN finalState.localRequiredOptions :
            ~MapHas(ps.foundOptions, name)
  THEN Throw(ps, "MissingRequiredOption", "is required")
  ELSE IF \E name \in DOMAIN finalState.persistentRequiredOptions :
            ~MapHas(ps.foundOptions, name)
  THEN Throw(ps, "MissingRequiredOption", "is required")
  ELSE ps

\* The token loop from the state ps; a throw leaves it
RECURSIVE ParseFrom(_, _)
ParseFrom(ps, tokens) ==
  IF ps.error # NoError \/ ps.cursor >= Len(tokens) THEN ps
  ELSE ParseFrom(ParseToken(ps, tokens), tokens)

\* parse(input, spec): the final state; `error` tells whether it threw
parse(input, spec) ==
  LET finalState == analyze(input, spec)
      consumed == ParseFrom(InitParse(spec), finalState.tokens)
  IN IF consumed.error # NoError THEN consumed
     ELSE FinalChecks(consumed, finalState)

\* ParseResult.options: each key with the contents of its array
ResultOptions(ps) ==
  [name \in DOMAIN ps.foundOptions |-> ps.arrays[ps.foundOptions[name]]]

\* ------------------------------------------------------------------------
\* execute (src/src/run.ts): the action chosen from a ParseResult and the
\* exit code.  A JavaScript value an action may produce is undefined, NaN
\* or a number.
\* ------------------------------------------------------------------------
Undefined == [t |-> "undefined", n |-> 0]

NaN == [t |-> "NaN", n |-> 0]

Number(n) == [t |-> "number", n |-> n]

\* Math.max and Math.min: NaN when an operand is NaN
MathMax(a, b) ==
  IF a.t = "NaN" \/ b.t = "NaN" THEN NaN
  ELSE IF a.n >= b.n THEN a ELSE b

MathMin(a, b) ==
  IF a.t = "NaN" \/ b.t = "NaN" THEN NaN
  ELSE IF a.n <= b.n THEN a ELSE b

\* a ?? b
Nullish(a, b) == IF a.t = "undefined" THEN b ELSE a

\* The results an action may return, directly or through a promise
ActionResults ==
  {Undefined, NaN, Number(-1), Number(0), Number(7), Number(255), Number(256)}

\* What a call of a spec's action does: it returns a result, throws an
\* Error, or throws a value that is not an Error
ActionOutcomes ==
  {[kind |-> "return", value |-> v] : v \in ActionResults}
    \cup {[kind |-> "throw Error", value |-> Undefined],
          [kind |-> "throw other", value |-> Undefined]}

\* The usage action of help.ts: 0 without a positional, 1 with one
UsageOutcomes(ps) ==
  {[kind |-> "return",
    value |-> IF ps.foundArgs = <<>> THEN Number(0) ELSE Number(1)]}

\* result.optionActions.at(-1) ?? result.actions.at(-1); "" is undefined.
\* SelectedActionFirst takes the first option action instead.
SelectedActionFirst(ps) ==
  IF ps.optionActions # <<>> THEN ps.optionActions[1]
  ELSE IF ps.actions # <<>> THEN ps.actions[Len(ps.actions)]
  ELSE ""

SelectedAction(ps) ==
  IF ps.optionActions # <<>> THEN ps.optionActions[Len(ps.optionActions)]
  ELSE IF ps.actions # <<>> THEN ps.actions[Len(ps.actions)]
  ELSE ""

\* ClampExitCode without the lower bound
ClampExitCodeAbove(exitCode) == MathMin(exitCode, Number(255))

\* Math.min(Math.max(exitCode, 0), 255)
ClampExitCode(exitCode) == MathMin(MathMax(exitCode, Number(0)), Number(255))

\* No value: execute has not returned, or its promise was rejected
NoExitCode == [t |-> "none", n |-> 0]

Rejected == [t |-> "rejected", n |-> 0]

\* The value execute ends with when the action does `outcome`
ExecuteResult(outcome) ==
  CASE outcome.kind = "return"      -> ClampExitCode(Nullish(outcome.value, Number(0)))
    [] outcome.kind = "throw Error" -> Number(1)
    [] OTHER                        -> Rejected

\* ------------------------------------------------------------------------
\* The state machine: one call execute(root, input); its call of parse is
\* stepped token by token
\* ------------------------------------------------------------------------
VARIABLES
  root,     \* the spec given to execute and parse
  input,    \* the raw argument strings
  pc,       \* "start", "analyze", "parse", "done" (parse has returned or
            \* thrown), "returned" (execute has ended)
  lex,      \* the local state of analyze
  ps,       \* the local state of parse
  invoked,  \* the actions execute has called, with what each call did
  exitCode, \* the value execute returned
  earlier   \* the calls of parse that ended before this one: the spec and
            \* input of each and what it returned or threw

vars == <<root, input, pc, lex, ps, invoked, exitCode, earlier>>

\* parse has run its prelude (path, actions, arity of the root) and is
\* about to call analyze
Init ==
  /\ root \in Roots
  /\ input \in Inputs(root)
  /\ pc = "start"
  /\ lex = InitLex
  /\ ps = InitParse(root)
  /\ invoked = <<>>
  /\ exitCode = NoExitCode
  /\ earlier = <<>>

\* analyze, input.length === 0: the maps are built and returned at once
AnalyzeEmpty ==
  /\ pc = "start"
  /\ Len(input) = 0
  /\ lex' = AnalyzeEmptyInput(root)
  /\ pc' = "parse"
  /\ UNCHANGED <<root, input, ps, invoked, exitCode, earlier>>

\* AnalyzeBegin with the four option maps declared outside analyze
AnalyzeBeginKeepingMaps ==
  /\ pc = "start"
  /\ Len(input) # 0
  /\ lex' = updateCurrentCommand(
               [InitLex EXCEPT !.localOptions = lex.localOptions,
                               !.persistentOptions = lex.persistentOptions,
                               !.localRequiredOptions = lex.localRequiredOptions,
                               !.persistentRequiredOptions = lex.persistentRequiredOptions],
               root)
  /\ pc' = "analyze"
  /\ UNCHANGED <<root, input, ps, invoked, exitCode, earlier>>

\* analyze, updateCurrentCommand(spec) before the loop
AnalyzeBegin ==
  /\ pc = "start"
  /\ Len(input) # 0
  /\ lex' = updateCurrentCommand(InitLex, root)
  /\ pc' = "analyze"
  /\ UNCHANGED <<root, input, ps, invoked, exitCode, earlier>>

InLoop(branch) ==
  /\ pc = "analyze"
  /\ lex.index < Len(input)
  /\ Branch(lex, input) = branch

AnalyzeArgSeparator ==
  /\ InLoop("arg-separator")
  /\ lex' = ArgSeparatorStep(lex, input)
  /\ UNCHANGED <<root, input, pc, ps, invoked, exitCode, earlier>>

AnalyzeSubcommand ==
  /\ InLoop("subcommand")
  /\ lex' = SubcommandStep(lex, input)
  /\ UNCHANGED <<root, input, pc, ps, invoked, exitCode, earlier>>

AnalyzeDashOption ==
  /\ InLoop("dash")
  /\ lex' = DashStep(lex, input)
  /\ UNCHANGED <<root, input, pc, ps, invoked, exitCode, earlier>>

AnalyzeChainedOptions ==
  /\ InLoop("chained")
  /\ lex' = ChainedStep(lex, input)
  /\ UNCHANGED <<root, input, pc, ps, invoked, exitCode, earlier>>

AnalyzeLongOption ==
  /\ InLoop("long")
  /\ lex' = LongStep(lex, input)
  /\ UNCHANGED <<root, input, pc, ps, invoked, exitCode, earlier>>

AnalyzeArg ==
  /\ InLoop("arg")
  /\ lex' = ArgStep(lex, input)
  /\ UNCHANGED <<root, input, pc, ps, invoked, exitCode, earlier>>

\* analyze returns finalState and tokens to parse
AnalyzeReturn ==
  /\ pc = "analyze"
  /\ lex.index >= Len(input)
  /\ pc' = "parse"
  /\ UNCHANGED <<root, input, lex, ps, invoked, exitCode, earlier>>

\* One token consumed by parse in the given state; a throw ends the call
ParseStep(state) ==
  /\ pc = "parse"
  /\ ps.cursor < Len(lex.tokens)
  /\ ps.state = state
  /\ ps' = ParseToken(ps, lex.tokens)
  /\ pc' = IF ps'.error # NoError THEN "done" ELSE "parse"
  /\ UNCHANGED <<root, input, lex, invoked, exitCode, earlier>>

ParseArgsToken == ParseStep("ParseArgs")

ParseOptionArgsToken == ParseStep("ParseOptionArgs")

ParseOptionArgRequireSeparatorToken == ParseStep("ParseOptionArgRequireSeparator")

\* The checks after the token loop; parse returns or throws
ParseFinish ==
  /\ pc = "parse"
  /\ ps.cursor >= Len(lex.tokens)
  /\ ps' = FinalChecks(ps, lex)
  /\ pc' = "done"
  /\ UNCHANGED <<root, input, lex, invoked, exitCode, earlier>>

\* execute, parse threw: the error is printed and 1 is returned
ExecuteParseError ==
  /\ pc = "done"
  /\ ps.error # NoError
  /\ exitCode' = Number(1)
  /\ pc' = "returned"
  /\ UNCHANGED <<root, input, lex, ps, invoked, earlier>>

\* execute, no action to run
ExecuteNoAction ==
  /\ pc = "done"
  /\ ps.error = NoError
  /\ SelectedAction(ps) = ""
  /\ exitCode' = Number(1)
  /\ pc' = "returned"
  /\ UNCHANGED <<root, input, lex, ps, invoked, earlier>>

\* execute calls the action and returns the exit code
ExecuteAction ==
  /\ pc = "done"
  /\ ps.error = NoError
  /\ SelectedAction(ps) # ""
  /\ \E outcome \in (IF SelectedAction(ps) = "builtinUsageAction"
                      THEN UsageOutcomes(ps) ELSE ActionOutcomes) :
        /\ invoked' = Append(invoked, [action |-> SelectedAction(ps), did |-> outcome])
        /\ exitCode' = ExecuteResult(outcome)
  /\ pc' = "returned"
  /\ UNCHANGED <<root, input, lex, ps, earlier>>

Next ==
  \/ AnalyzeEmpty
  \/ AnalyzeBegin
  \/ AnalyzeArgSeparator
  \/ AnalyzeSubcommand
  \/ AnalyzeDashOption
  \/ AnalyzeChainedOptions
  \/ AnalyzeLongOption
  \/ AnalyzeArg
  \/ AnalyzeReturn
  \/ ParseArgsToken
  \/ ParseOptionArgsToken
  \/ ParseOptionArgRequireSeparatorToken
  \/ ParseFinish
  \/ ExecuteParseError
  \/ ExecuteNoAction
  \/ ExecuteAction

Spec == Init /\ [][Next]_vars

\* ------------------------------------------------------------------------
\* Several calls, one after the other.  parse and analyze are synchronous,
\* so a call of parse begins only when the one before has returned or
\* thrown; execute awaits its action, so the next call may begin while an
\* earlier execute has not returned yet.
\* ------------------------------------------------------------------------
MaxCalls == 3

\* The specs and inputs of the calls
CallCases ==
  {<<"main", <<>>>>,
   <<"main", <<s_sub, s_sep, s_x>>>>,
   <<"main", <<s_a, s_x>>>>,
   <<"dash", <<s_dashx>>>>,
   <<"req", <<s_p>>>>,
   <<"chain", <<s_ab, s_c1>>>>,
   <<"long", <<s_optv>>>>,
   <<"sepr", <<s_req, s_v>>>>,
   <<"act", <<s_1, s_2>>>>,
   <<"empty", <<s_x>>>>,
   <<"vari", <<s_files, s_x, s_r>>>>}

\* What parse gives its caller: the ParseResult, or the kind of the error
ParseResult(p) ==
  IF p.error # NoError
  THEN [threw |-> TRUE, kind |-> p.error.kind,
        path |-> <<>>, actions |-> <<>>, optionActions |-> <<>>,
        argSeparatorIndex |-> -1, args |-> <<>>, options |-> EmptyMap]
  ELSE [threw |-> FALSE, kind |-> "",
        path |-> p.path, actions |-> p.actions, optionActions |-> p.optionActions,
        argSeparatorIndex |-> p.argSeparatorIndex, args |-> p.foundArgs,
        options |-> ResultOptions(p)]

InitCalls ==
  /\ \E c \in CallCases : root = c[1] /\ input = c[2]
  /\ pc = "start"
  /\ lex = InitLex
  /\ ps = InitParse(root)
  /\ invoked = <<>>
  /\ exitCode = NoExitCode
  /\ earlier = <<>>

\* parse is called again and has run its prelude, which allocates path,
\* actions, foundArgs and foundOptions anew.  analyze has not been called
\* yet: lex is what the call before left behind, and analyze declares each
\* of its locals before it uses them.
ParseAgain ==
  /\ pc \in {"done", "returned"}
  /\ Len(earlier) < MaxCalls - 1
  /\ earlier' = Append(earlier, [root |-> root, input |-> input,
                                 result |-> ParseResult(ps)])
  /\ \E c \in CallCases : root' = c[1] /\ input' = c[2]
  /\ ps' = InitParse(root')
  /\ pc' = "start"
  /\ invoked' = <<>>
  /\ exitCode' = NoExitCode
  /\ UNCHANGED lex

NextCalls ==
  \/ Next
  \/ ParseAgain

SpecCalls == InitCalls /\ [][NextCalls]_vars

\* ------------------------------------------------------------------------
\* Derived views
\* ------------------------------------------------------------------------
Done == pc = "done"

Succeeded == pc = "done" /\ ps.error = NoError

Failed == pc = "done" /\ ps.error # NoError

\* The stepped call ends in the state the functions compute
StepsAgreeWithParse == Done => ps = [parse(input, root) EXCEPT !.cursor = ps.cursor]

\* The path of commands entered by analyze so far
RECURSIVE SubcommandsOf(_)
SubcommandsOf(tokens) ==
  IF tokens = <<>> THEN <<>>
  ELSE (IF Head(tokens).kind = "subcommand" THEN <<Head(tokens).subcommand>> ELSE <<>>)
         \o SubcommandsOf(Tail(tokens))

LexPath == <<root>> \o SubcommandsOf(lex.tokens)

\* The tokens pushed by the step that leads to the next state
NewTokens == SubSeq(lex'.tokens, Len(lex.tokens) + 1, Len(lex'.tokens))

\* analyze is about to handle input[lex.index] in its loop
AtToken == pc = "analyze" /\ lex.index < Len(input)

\* ------------------------------------------------------------------------
\* Claims
\* ------------------------------------------------------------------------

\* C1: once analyze has reached the first input equal to `--`, that input
\* is emitted as one arg-separator token and it is followed by exactly one
\* arg token for each later input, in order and with the input as literal
\* (a further `--`, option names and subcommand names included); nothing
\* else is emitted after the separator.
C1_ArgSeparatorEndsMatching ==
  \A k \in 1..Len(input) :
    (/\ input[k] = s_sep
     /\ \A h \in 1..(k - 1) : input[h] # s_sep
     /\ lex.index >= k)
    => \E i \in 1..Len(lex.tokens) :
         /\ lex.tokens[i] = TokenArgSeparator(k - 1, 0, 2, s_sep)
         /\ \A j \in 1..(i - 1) : lex.tokens[j].index < k - 1
         /\ Len(lex.tokens) = i + (Len(input) - k)
         /\ \A m \in (k + 1)..Len(input) :
              lex.tokens[i + (m - k)] = TokenArg(m - 1, 0, Len(input[m]), input[m])

\* C1 witness: after an arg-separator token a further `--` and the name of
\* an option or of a subcommand have been emitted as arg tokens
C1_Witness ==
  \E i \in 1..Len(lex.tokens) :
    /\ lex.tokens[i].kind = "arg-separator"
    /\ \E j, k \in (i + 1)..Len(lex.tokens) :
         /\ lex.tokens[j].kind = "arg" /\ lex.tokens[j].literal = s_sep
         /\ lex.tokens[k].kind = "arg" /\ lex.tokens[k].literal \in {s_a, s_top, s_sub}

\* C2: as the claim states it: no subcommand token comes after an option
\* token of a non-persistent option.
C2_NoSubcommandAfterNonPersistentOption ==
  \A i, j \in 1..Len(lex.tokens) :
    (/\ i < j
     /\ lex.tokens[i].kind = "option"
     /\ ~Options[lex.tokens[i].option].isPersistent)
    => lex.tokens[j].kind # "subcommand"

\* The names declared by the options of a command
OptionsOf(command) == Range(Commands[command].options)

NamesOf(options) == UNION {Range(Options[o].name) : o \in options}

PersistentOptionsOnPath(path) ==
  {o \in UNION {OptionsOf(path[i]) : i \in 1..Len(path)} : Options[o].isPersistent}

\* The non-persistent options of the commands above the last one
AncestorLocalOptions(path) ==
  {o \in UNION {OptionsOf(path[i]) : i \in 1..(Len(path) - 1)} : ~Options[o].isPersistent}

Last(seq) == seq[Len(seq)]

\* The token has the form of one option under the directives in effect:
\* a sigil and one character, or `--` and a name; any form when the
\* options are POSIX-noncompliant
OptionShaped(token) ==
  IF lex.posixCompliantOptions
  THEN \/ Len(token) = 2 /\ token[1] \in {"-", "+"} /\ token # s_sep
       \/ Len(token) > 2 /\ StartsWith(token, s_sep) /\ \A i \in 1..Len(lex.separators) :
                                                         IndexOf(token, lex.separators[i]) = -1
  ELSE \A i \in 1..Len(lex.separators) : IndexOf(token, lex.separators[i]) = -1

\* The token is the name of a subcommand of the current command
NamesSubcommand(token) ==
  \E c \in Range(Commands[Last(LexPath)].subcommands) : token \in Range(Commands[c].name)

\* C3: the persistent option map holds every name of every persistent
\* option declared on a command of the path (it is never cleared); a token
\* naming such an option is emitted as one option token for an option of
\* that name at every depth; and after persistent options only, a token
\* naming a subcommand of the current command is still emitted as a
\* subcommand token.
C3_PersistentOptionsCarried ==
  [][/\ pc' # "start" =>
          NamesOf(PersistentOptionsOnPath(LexPath')) \subseteq DOMAIN lex'.persistentOptions
     /\ (/\ AtToken
         /\ input[lex.index + 1] # s_sep
         /\ input[lex.index + 1] \in NamesOf(PersistentOptionsOnPath(LexPath))
         /\ OptionsAllowed(lex)
         /\ OptionShaped(input[lex.index + 1])
         /\ ~NamesSubcommand(input[lex.index + 1]))
        => /\ Len(NewTokens) = 1
           /\ NewTokens[1].kind = "option"
           /\ NewTokens[1].index = lex.index
           /\ NewTokens[1].literal = input[lex.index + 1]
           /\ input[lex.index + 1] \in Range(Options[NewTokens[1].option].name)
     /\ (/\ AtToken
         /\ lex.tokens # <<>>
         /\ \A i \in 1..Len(lex.tokens) :
              /\ lex.tokens[i].kind = "option"
              /\ Options[lex.tokens[i].option].isPersistent
         /\ NamesSubcommand(input[lex.index + 1]))
        => /\ Len(NewTokens) = 1
           /\ NewTokens[1].kind = "subcommand"
           /\ input[lex.index + 1] \in Range(Commands[NewTokens[1].subcommand].name)
    ]_vars

\* C3 witness: a persistent option of the root was matched before the
\* subcommand, the subcommand was matched, and the option was matched again
\* below it
C3_Witness ==
  \E i, j, k \in 1..Len(lex.tokens) :
    /\ i < j /\ j < k
    /\ lex.tokens[i].kind = "option" /\ lex.tokens[i].option = "o_top"
    /\ lex.tokens[j].kind = "subcommand"
    /\ lex.tokens[k].kind = "option" /\ lex.tokens[k].option = "o_top"

\* The token names a non-persistent option of a command above the current
\* one, and neither the current command nor a persistent option has the name
OutOfScope(token) ==
  /\ Len(LexPath) > 1
  /\ token \in NamesOf(AncestorLocalOptions(LexPath))
  /\ token \notin NamesOf(OptionsOf(Last(LexPath)))
  /\ token \notin NamesOf(PersistentOptionsOnPath(LexPath))

\* analyze is about to try the token, which has the form of an option,
\* against the options in scope under POSIX compliance
TriedAsOption(token) ==
  /\ token # s_sep
  /\ lex.posixCompliantOptions
  /\ OptionsAllowed(lex)
  /\ OptionShaped(token)
  /\ ~NamesSubcommand(token)

EmitsUnknownOption(token) ==
  /\ Len(NewTokens) = 1
  /\ NewTokens[1].kind = "unknown-option"
  /\ NewTokens[1].index = lex.index
  /\ NewTokens[1].literal = token

DemandedRequired(path) ==
  {o \in OptionsOf(Last(path)) \cup PersistentOptionsOnPath(path) : Options[o].isRequired}

\* Some name of the option is a key of the bound options
Bound(o) == \E n \in Range(Options[o].name) : MapHas(ps.foundOptions, n)

\* C5 as the claim states it: a parse that passes every other check
\* succeeds only with every demanded required option bound, and throws
\* MissingRequiredOption only when a demanded one is absent.
C5_RequiredOptions ==
  Done =>
    /\ ps.error = NoError => \A o \in DemandedRequired(ps.path) : Bound(o)
    /\ ps.error.kind = "MissingRequiredOption" =>
         \E o \in DemandedRequired(ps.path) : ~Bound(o)

\* The positions of the option tokens
OptionTokens == {i \in 1..Len(lex.tokens) : lex.tokens[i].kind = "option"}

\* Option a lists a name of option b in exclusiveOn
Excludes(a, b) == Range(Options[a].exclusiveOn) \cap Range(Options[b].name) # {}

\* C6: a parse whose input matches an option A and an option B that A
\* lists (by any of B's names) in exclusiveOn fails, in either order and
\* chained or not; and a parse is rejected for exclusivity only when both
\* were matched.
C6_ExclusiveOn ==
  Done =>
    /\ \A i, j \in OptionTokens :
         Excludes(lex.tokens[i].option, lex.tokens[j].option) => ps.error # NoError
    /\ ps.error.message = "can't be used together" =>
         \E i, j \in OptionTokens : Excludes(lex.tokens[i].option, lex.tokens[j].option)

\* C6 witness: B was given first, under the alias A lists, then A, and the
\* parse was rejected for exclusivity
C6_Witness ==
  /\ Failed
  /\ ps.error.message = "can't be used together"
  /\ Len(lex.tokens) = 2
  /\ lex.tokens[1].kind = "option" /\ lex.tokens[1].literal = s_bee
  /\ lex.tokens[2].kind = "option" /\ lex.tokens[2].option = "o_xa"

\* C7: a parse that matched an option A succeeds only if, for every name
\* A lists in dependsOn, an option of that name was matched too (before or
\* after A, or in the same chain); with A and B both given, in any of the
\* three ways, the parse of the "excl" spec succeeds.
C7_DependsOn ==
  Done =>
    /\ ps.error = NoError =>
         \A i \in OptionTokens :
           \A n \in Range(Options[lex.tokens[i].option].dependsOn) :
             \E j \in OptionTokens : n \in Range(Options[lex.tokens[j].option].name)
    /\ (root = "excl" /\ input \in {<<s_c, s_d>>, <<s_d, s_c>>, <<s_cd>>}) =>
         ps.error = NoError
    /\ ps.error.message = "requires" =>
         \E i \in OptionTokens :
           \E n \in Range(Options[lex.tokens[i].option].dependsOn) :
             \A j \in OptionTokens : n \notin Range(Options[lex.tokens[j].option].name)

\* C7 witness: the dependency was given first, then the option that
\* depends on it, and the parse succeeded
C7_Witness ==
  /\ Succeeded
  /\ Len(lex.tokens) = 2
  /\ lex.tokens[1].kind = "option" /\ lex.tokens[1].option = "o_d"
  /\ lex.tokens[2].kind = "option" /\ lex.tokens[2].option = "o_c"

\* A list of n empty strings
Placeholders(n) == [k \in 1..n |-> <<>>]

\* C8: when the input consists of repetitions of the one option of the
\* spec, declared isRepeatable: N, under any of its names and chained or
\* not, up to N repetitions succeed and bind one empty string per
\* repetition under every name of the option, and more than N fail.
C8_FiniteRepeatable ==
  \A o \in OptionIds :
    (/\ Done
     /\ Options[o].isRepeatable > 0
     /\ OptionsOf(root) = {o}
     /\ getMinArgs(makeArray(Commands[root].args)) = 0
     /\ lex.tokens # <<>>
     /\ \A i \in 1..Len(lex.tokens) :
          lex.tokens[i].kind = "option" /\ lex.tokens[i].option = o)
    => IF Len(lex.tokens) <= Options[o].isRepeatable
       THEN /\ ps.error = NoError
            /\ \A n \in Range(Options[o].name) :
                 /\ MapHas(ps.foundOptions, n)
                 /\ ResultOptions(ps)[n] = Placeholders(Len(lex.tokens))
       ELSE ps.error # NoError

\* C8 witness: exactly N repetitions under both names succeeded
C8_Witness ==
  /\ Succeeded
  /\ root = "rep"
  /\ Len(lex.tokens) = RepeatN
  /\ \E i, j \in OptionTokens : lex.tokens[i].literal = s_r /\ lex.tokens[j].literal = s_rep
  /\ ResultOptions(ps)[s_rep] = Placeholders(RepeatN)

\* C9: a parse whose input matches an option without isRepeatable twice,
\* under whichever of its names, fails with a ParseError.
C9_NonRepeatable ==
  Done =>
    \A i, j \in OptionTokens :
      (/\ i < j
       /\ lex.tokens[i].option = lex.tokens[j].option
       /\ Options[lex.tokens[i].option].isRepeatable = 0)
      => ps.error # NoError /\ ps.error.kind # "Error"

\* C9 witness: an option given under one name and then under its alias
\* was rejected as repeated
C9_Witness ==
  /\ Failed
  /\ ps.error.message = "Repeated option"
  /\ \E i, j \in OptionTokens :
       /\ i < j
       /\ lex.tokens[i].option = lex.tokens[j].option
       /\ lex.tokens[i].literal # lex.tokens[j].literal

\* What a finished parse yields: the bound options, or a throw
Outcome(p) ==
  IF p.error # NoError THEN [returns |-> FALSE, options |-> EmptyMap]
  ELSE [returns |-> TRUE, options |-> ResultOptions(p)]

\* The parse of `-abVALUE` has ended and agrees with `-ab VALUE` and with
\* `-a -b VALUE`
ChainedValueAgrees(v) ==
  (Done /\ root = "chain" /\ input = <<s_ab \o v>>)
  => /\ Outcome(ps) = Outcome(parse(<<s_ab, v>>, root))
     /\ Outcome(ps) = Outcome(parse(<<s_a, s_b, v>>, root))

\* C10 as the claim states it: the three forms agree for every value
\* (a value being at least one character).
C10_ChainedValueAnyString == \A v \in Values : v # <<>> => ChainedValueAgrees(v)

\* A value that is not empty, does not begin with an option-arg separator
\* and, as a token of its own, is a plain arg: not `--` and not two or
\* more characters beginning with `-` or `+`
PlainValue(v) ==
  /\ v # <<>>
  /\ ~(Len(v) > 1 /\ v[1] \in {"-", "+"})
  /\ \A i \in 1..Len(InitLex.separators) : ~StartsWith(v, InitLex.separators[i])

\* C10 amended: the three forms agree for every plain value.
C10_ChainedValuePlain == \A v \in Values : PlainValue(v) => ChainedValueAgrees(v)

\* C10 witness: `-abc=d` was parsed and bound c=d to -b
C10_Witness ==
  /\ Succeeded
  /\ root = "chain"
  /\ input = <<s_ab \o <<"c", "=", "d">>>>
  /\ ResultOptions(ps) = (s_a :> <<>>) @@ (s_b :> <<<<"c", "=", "d">>>>)

\* The parse of `--opt=VALUE` has ended and agrees with `--opt VALUE`
LongValueAgrees(v) ==
  (Done /\ root = "long" /\ input = <<(s_opt \o s_eq) \o v>>)
  => Outcome(ps) = Outcome(parse(<<s_opt, v>>, root))

PlainLongValue(v) == ~(Len(v) > 1 /\ v[1] \in {"-", "+"})

BareSpec(r) ==
  /\ Commands[r].options = <<>>
  /\ Commands[r].subcommands = <<>>
  /\ ~Commands[r].args.def

\* parse returned with no positional and no option
EmptyResult == ps.error = NoError /\ ps.foundArgs = <<>> /\ ResultOptions(ps) = EmptyMap

\* C12 as the claim states it: against a spec with no options, no
\* subcommands and no args the empty input parses to empty results and
\* every other input fails with TooManyArguments.
C12_BareSpecTooManyArguments ==
  (Done /\ BareSpec(root))
  => IF input = <<>> THEN EmptyResult ELSE ps.error.kind = "TooManyArguments"

\* C12 amended: the empty input parses to empty results and every other
\* input fails, with the error of its first token: TooManyArguments for a
\* plain arg, UnknownOption for a token of option form, a ParseError for
\* `--`.
C12_BareSpecRejectsInput ==
  (Done /\ BareSpec(root))
  => IF input = <<>> THEN EmptyResult
     ELSE ps.error.kind =
            CASE lex.tokens[1].kind = "arg"            -> "TooManyArguments"
              [] lex.tokens[1].kind = "unknown-option" -> "UnknownOption"
              [] lex.tokens[1].kind = "arg-separator"  -> "ParseError"
              [] OTHER                                 -> "none"

\* C12 witness: a plain value given to the bare spec was rejected
C12_Witness ==
  /\ Failed
  /\ BareSpec(root)
  /\ input = <<s_x>>
  /\ ps.error.kind = "TooManyArguments"

\* The token analyze is about to handle
CurrentToken == input[lex.index + 1]

\* Subcommands are matched by unique prefix and the token is one that
\* subcommand matching is tried on
PrefixMatching ==
  /\ AtToken
  /\ lex.subcommandsMatchUniquePrefix
  /\ ~lex.hasFoundArg
  /\ ~lex.hasUsedNonPersistentOption
  /\ CurrentToken # s_sep

\* The sibling subcommands that have the token as a name
ExactSiblings(token) ==
  {c \in Range(lex.localSubcommands) : token \in Range(Commands[c].name)}

\* The sibling subcommands that have a name starting with the token
PrefixSiblings(token) ==
  {c \in Range(lex.localSubcommands) :
     \E n \in Range(Commands[c].name) : StartsWith(n, token)}

\* The step emits the token as a subcommand token for the command
EmitsSubcommand(token, command) ==
  NewTokens = <<TokenSubcommand(lex.index, 0, Len(token), token, command)>>

\* C13: with subcommandsMatchUniquePrefix in effect, a token equal to a
\* name of a sibling subcommand is emitted as a subcommand token for that
\* subcommand, whatever other names start with the token.
C13_ExactNameTakesPrecedence ==
  [][(PrefixMatching /\ ExactSiblings(CurrentToken) # {})
       => \E c \in ExactSiblings(CurrentToken) : EmitsSubcommand(CurrentToken, c)]_vars

\* C14: with subcommandsMatchUniquePrefix in effect and a token that is
\* no sibling's name, the token is emitted as a subcommand token exactly
\* when one sibling has a name starting with it (several such names of one
\* command count once), and for that sibling; otherwise the token goes
\* to the option and positional handling, and the command stays the same.
C14_UniquePrefixResolves ==
  [][(PrefixMatching /\ ExactSiblings(CurrentToken) = {})
       => IF Cardinality(PrefixSiblings(CurrentToken)) = 1
          THEN \E c \in PrefixSiblings(CurrentToken) : EmitsSubcommand(CurrentToken, c)
          ELSE /\ NewTokens # <<>>
               /\ \A i \in 1..Len(NewTokens) :
                     NewTokens[i].kind \in {"option", "option-arg", "unknown-option", "arg"}
               /\ lex'.localSubcommands = lex.localSubcommands]_vars

\* C14 witness: `a` is no name, and only the command named ab and ac has
\* names starting with it; `a` was emitted as that subcommand
C14_Witness ==
  /\ root = "pfx"
  /\ pc = "analyze"
  /\ input[1] = s_ka
  /\ Len(lex.tokens) = 1
  /\ lex.tokens[1] = TokenSubcommand(0, 0, 1, s_ka, "k1")

\* parse is about to consume a token
AtParseToken == pc = "parse" /\ ps.cursor < Len(lex.tokens)

\* The token parse is about to consume
NextToken == lex.tokens[ps.cursor + 1]

\* An option with requiresSeparator is open and the next token is a bare
\* arg, option or subcommand token
BareTokenAfterRequireSeparator ==
  /\ AtParseToken
  /\ ps.state = "ParseOptionArgRequireSeparator"
  /\ NextToken.kind \in {"arg", "option", "subcommand"}

\* What the token does in the positional-collecting state
AsInParseArgs == ParseToken([ps EXCEPT !.state = "ParseArgs"], lex.tokens)

\* Two outcomes of a token are the same throw, or the same state of parse
\* (the reference to a closed value array aside)
SameEffect(a, b) ==
  IF a.error # NoError \/ b.error # NoError THEN a.error = b.error
  ELSE [a EXCEPT !.optionArgs = 0] = [b EXCEPT !.optionArgs = 0]

\* C15: while an option with requiresSeparator is open, a following bare
\* arg, option or subcommand token is not bound to it: with a minimum
\* above zero parse fails with TooFewOptionArguments; with a minimum of
\* zero the option keeps zero values and the token has the effect it has
\* in the positional-collecting state.
C15_RequireSeparatorBareToken ==
  [][BareTokenAfterRequireSeparator
       => IF ps.optionArgsMin > 0
          THEN ps'.error.kind = "TooFewOptionArguments"
          ELSE /\ ps'.arrays[ps.optionArgs] = <<>>
               /\ SameEffect(ps', AsInParseArgs)]_vars

\* The step of parse appends a value to the open option
BindsValue ==
  /\ ps.optionArgs # 0
  /\ ps'.error = NoError
  /\ Len(ps'.arrays[ps.optionArgs]) > Len(ps.arrays[ps.optionArgs])

\* C16: an option with requiresSeparator is given a value only by an
\* inline option-arg token that came through a non-empty separator; when
\* requiresSeparator is a string, an inline value that came through any
\* other separator makes parse fail.
C16_RequireSeparatorExplicit ==
  [][(AtParseToken /\ ps.state = "ParseOptionArgRequireSeparator")
       => /\ BindsValue => /\ NextToken.kind = "option-arg"
                           /\ NextToken.separator # <<>>
          /\ (/\ NextToken.kind = "option-arg"
              /\ ps.requiredSeparator.isString
              /\ NextToken.separator # ps.requiredSeparator.str)
               => ps'.error # NoError]_vars

\* The command parse ended in, with the bounds its args declare
FinalCommand(p) == Last(p.path)

MinOf(command) == getMinArgs(makeArray(Commands[command].args))

MaxOf(command) == getMaxArgs(makeArray(Commands[command].args))

\* The option tokens, in input order, whose option has an action
ActionOptionTokens == {i \in OptionTokens : Options[lex.tokens[i].option].action # ""}

\* The token loop of parse ran to its end without a throw
LoopCompleted == ParseFrom(InitParse(root), lex.tokens).error = NoError

\* C17: a successful parse without a matched option that has an action
\* holds at least the minimum of positionals of the final command; with
\* such an option matched parse never fails for too few positionals; with
\* none matched, and the tokens consumed without error, a count below the
\* minimum raises TooFewArguments.
C17_MinimumUnlessOptionAction ==
  Done =>
    /\ (ps.error = NoError /\ ActionOptionTokens = {})
         => Len(ps.foundArgs) >= MinOf(FinalCommand(ps))
    /\ ActionOptionTokens # {} => ps.error.kind # "TooFewArguments"
    /\ (/\ ActionOptionTokens = {}
        /\ LoopCompleted
        /\ Len(ps.foundArgs) < MinOf(FinalCommand(ps)))
         => ps.error.kind = "TooFewArguments"

\* C17 witness: --alpha has an action and the required positional of the
\* command is missing; parse returned
C17_Witness ==
  /\ Succeeded
  /\ root = "act"
  /\ input = <<s_alpha>>
  /\ ps.foundArgs = <<>>
  /\ MinOf(FinalCommand(ps)) = 1

\* parse is about to handle an arg token as a positional
PositionalArrives ==
  /\ AtParseToken
  /\ NextToken.kind = "arg"
  /\ \/ ps.state = "ParseArgs"
     \/ /\ ps.state = "ParseOptionArgs"
        /\ Len(ps.arrays[ps.optionArgs]) >= ps.optionArgsMax
     \/ /\ ps.state = "ParseOptionArgRequireSeparator"
        /\ ps.optionArgsMin = 0

ActionOf(command) ==
  IF Commands[command].action # "" THEN Commands[command].action
  ELSE IF Commands[command].requiresSubcommand THEN "builtinUsageAction"
  ELSE ""

Max(S) == CHOOSE x \in S : \A y \in S : y <= x

\* The action the claim names: of the last matched option that has one,
\* else of the deepest command on the path that contributes one; "" when
\* there is none
ExpectedAction ==
  LET acting == {i \in 1..Len(ps.path) : ActionOf(ps.path[i]) # ""}
  IN IF ActionOptionTokens # {}
     THEN Options[lex.tokens[Max(ActionOptionTokens)].option].action
     ELSE IF acting # {} THEN ActionOf(ps.path[Max(acting)])
     ELSE ""

\* execute has ended after a successful parse
ReturnedAfterParse == pc = "returned" /\ ps.error = NoError

\* C19 as the claim states it: after a successful parse execute has
\* called exactly one action, the one the claim names.
C19_ExactlyOneAction ==
  ReturnedAfterParse
    => /\ Len(invoked) = 1
       /\ invoked[1].action = ExpectedAction

\* C19 amended: after a successful parse execute has called the action
\* the claim names, once, and no other; it has called none when no
\* matched option and no command on the path has an action.
C19_AtMostOneAction ==
  ReturnedAfterParse
    => IF ExpectedAction = "" THEN invoked = <<>>
       ELSE /\ Len(invoked) = 1
            /\ invoked[1].action = ExpectedAction

\* C19 witness: --beta then --alpha were matched, both with an action;
\* execute called the action of --alpha
C19_Witness ==
  /\ ReturnedAfterParse
  /\ root = "act"
  /\ input = <<s_beta, s_alpha>>
  /\ Len(invoked) = 1
  /\ invoked[1].action = "act_alpha"

\* n clamped into 0..255
Clamped(n) == IF n < 0 THEN 0 ELSE IF n > 255 THEN 255 ELSE n

\* What C20 says of the cases that end with 1
ReturnsOneOnFailure ==
  /\ ps.error # NoError => exitCode = Number(1)
  /\ (ps.error = NoError /\ invoked = <<>>) => exitCode = Number(1)
  /\ (invoked # <<>> /\ invoked[1].did.kind = "throw Error") => exitCode = Number(1)

\* The action was called and returned a result
ActionReturned == invoked # <<>> /\ invoked[1].did.kind = "return"

\* C20 as the claim states it: execute returns 1 when parse throws, when
\* no action is selected and when the action throws an Error; when the
\* action returns, execute returns its result (0 for none) clamped into
\* 0..255.
C20_ExitCodeClamped ==
  pc = "returned"
    => /\ ReturnsOneOnFailure
       /\ ActionReturned
            => /\ exitCode.t = "number"
               /\ exitCode.n \in 0..255
               /\ invoked[1].did.value.t = "undefined" => exitCode.n = 0
               /\ invoked[1].did.value.t = "number"
                    => exitCode.n = Clamped(invoked[1].did.value.n)

\* C20 amended: as above for every result other than NaN; a NaN result
\* is returned as NaN, and a thrown value that is not an Error leaves
\* execute without a return value.
C20_ExitCodeClampedUnlessNaN ==
  pc = "returned"
    => /\ ReturnsOneOnFailure
       /\ ActionReturned
            => /\ invoked[1].did.value.t = "undefined" => exitCode = Number(0)
               /\ invoked[1].did.value.t = "number"
                    => exitCode = Number(Clamped(invoked[1].did.value.n))
               /\ invoked[1].did.value.t = "NaN" => exitCode = NaN
       /\ (invoked # <<>> /\ invoked[1].did.kind = "throw other") => exitCode = Rejected

\* C20 witness: the action returned 256 and execute returned 255
C20_Witness ==
  /\ pc = "returned"
  /\ ActionReturned
  /\ invoked[1].did.value = Number(256)
  /\ exitCode = Number(255)

\* The positions (from 1) of the `--` strings of the input
SeparatorPositions == {i \in 1..Len(input) : input[i] = s_sep}

Min(S) == CHOOSE x \in S : \A y \in S : x <= y

\* C21: on a successful parse argSeparatorIndex is -1 exactly when the
\* input holds no `--`; otherwise it is a position in args, and args from
\* that position on are the input strings after the first `--`.
C21_ArgSeparatorIndex ==
  Succeeded =>
    IF SeparatorPositions = {} THEN ps.argSeparatorIndex = -1
    ELSE LET first == Min(SeparatorPositions)
             index == ps.argSeparatorIndex
         IN /\ index \in 0..Len(ps.foundArgs)
            /\ SubSeq(ps.foundArgs, index + 1, Len(ps.foundArgs))
                 = SubSeq(input, first + 1, Len(input))

\* C21 witness: one positional, `--`, then a string that names a
\* subcommand; the index is 1 and the string after `--` is a positional
C21_Witness ==
  /\ Succeeded
  /\ root = "main"
  /\ input = <<s_x, s_sep, s_sub>>
  /\ ps.argSeparatorIndex = 1
  /\ ps.foundArgs = <<s_x, s_sub>>

\* C22: an arg-separator token that arrives when the current command
\* holds its maximum of positionals (zero for a command without args)
\* makes parse fail.
C22_ArgSeparatorAtMaximum ==
  [][(/\ AtParseToken
      /\ NextToken.kind = "arg-separator"
      /\ Len(ps.foundArgs) >= MaxOf(FinalCommand(ps)))
       => ps'.error # NoError]_vars

\* C22 witness: `--` given to a command that takes no positional was
\* rejected by parseArgSeparator
C22_Witness ==
  /\ Failed
  /\ MaxOf(FinalCommand(ps)) = 0
  /\ input = <<s_sep>>
  /\ ps.error.message = "Unexpected argument '--'"

\* The positions on the path of the commands that set a boolean directive
SettersOf(path, key) ==
  {i \in 1..Len(path) : Commands[path[i]].parserDirectives[key] # "undefined"}

\* The value of a boolean directive set by the nearest command on the
\* path that sets it; false when no command sets it
NearestBoolean(path, key) ==
  IF SettersOf(path, key) = {} THEN FALSE
  ELSE Commands[path[Max(SettersOf(path, key))]].parserDirectives[key] = "true"

\* The separators set by the nearest command on the path that sets them;
\* `=` when no command sets them
NearestSeparators(path) ==
  LET setters == {i \in 1..Len(path) :
                    Commands[path[i]].parserDirectives.optionArgSeparators.set}
  IN IF setters = {} THEN <<s_eq>>
     ELSE Commands[path[Max(setters)]].parserDirectives.optionArgSeparators.val

\* C23: after a subcommand transition every directive has the value set
\* by the nearest command on the path that sets it, `false` included.
C23_DirectivesInheritedPerKey ==
  (pc = "analyze" /\ Len(LexPath) > 1)
    => /\ lex.posixCompliantOptions = ~NearestBoolean(LexPath, "flagsArePosixNoncompliant")
       /\ lex.optionsMustPrecedeArguments
            = NearestBoolean(LexPath, "optionsMustPrecedeArguments")
       /\ lex.subcommandsMatchUniquePrefix
            = NearestBoolean(LexPath, "subcommandsMatchUniquePrefix")
       /\ lex.separators = NearestSeparators(LexPath)

\* A positional arg token has been emitted
HasArgToken == \E i \in 1..Len(lex.tokens) : lex.tokens[i].kind = "arg"

\* C24: with optionsMustPrecedeArguments in effect and a positional arg
\* token emitted, every later token other than `--` is emitted as one arg
\* token, even if it names a valid option.
C24_OptionsMustPrecedeArguments ==
  [][(AtToken /\ lex.optionsMustPrecedeArguments /\ HasArgToken
        /\ CurrentToken # s_sep)
      => NewTokens = <<TokenArg(lex.index, 0, Len(CurrentToken), CurrentToken)>>]_vars

C24_Witness ==
  /\ pc = "analyze" /\ root = "omp" /\ input = <<s_x, s_a>>
  /\ lex.optionsMustPrecedeArguments
  /\ hasOption(lex, s_a)
  /\ lex.tokens = <<TokenArg(0, 0, 1, s_x), TokenArg(1, 0, 2, s_a)>>

\* The separator occurs in the token at the 0-based position i
Occurs(sep, token, i) ==
  /\ Len(sep) > 0
  /\ i + Len(sep) <= Len(token)
  /\ SubSeq(token, i + 1, i + Len(sep)) = sep

\* The token and its parts before an occurrence of a separator in effect
NameParts(token) ==
  {token} \cup
  {Slice2(token, 0, i) : i \in {j \in 0..(Len(token) - 1) :
      \E k \in 1..Len(lex.separators) : Occurs(lex.separators[k], token, j)}}

\* The token is neither `--` nor matched as a subcommand, and options are
\* still matched
OptionMatchingTried ==
  /\ AtToken
  /\ CurrentToken # s_sep
  /\ ~SubcommandCond(lex, CurrentToken)
  /\ ~(lex.optionsMustPrecedeArguments /\ HasArgToken)

OccurringSeparators(token) ==
  {k \in 1..Len(lex.separators) :
     \E i \in 0..(Len(token) - 1) : Occurs(lex.separators[k], token, i)}

\* The positions in the token at which a separator in effect occurs
OccurrencePositions(token) ==
  {i \in 0..(Len(token) - 1) :
     \E k \in 1..Len(lex.separators) : Occurs(lex.separators[k], token, i)}

\* C26: a long or POSIX-noncompliant token in which several separators
\* occur is split at the occurrence with the smallest position: the part
\* before it is the option name (when it is split at all, that is unless
\* the name is out of scope under POSIX noncompliance).
C26_SplitAtFirstOccurrence ==
  [][(/\ OptionMatchingTried
      /\ ~ShortCond(lex, CurrentToken)
      /\ LongCond(lex, CurrentToken)
      /\ Cardinality(OccurringSeparators(CurrentToken)) > 1)
      => LET name == Slice2(CurrentToken, 0, Min(OccurrencePositions(CurrentToken)))
         IN (lex.posixCompliantOptions \/ hasOption(lex, name))
              => /\ Len(NewTokens) = 2
                 /\ NewTokens[1].kind \in {"option", "unknown-option"}
                 /\ NewTokens[1].literal = name
                 /\ NewTokens[2].kind = "option-arg"]_vars

\* One entry for each command of the path that has an action or, failing
\* that, requiresSubcommand; in the order of the path
RECURSIVE PathActions(_)
PathActions(path) ==
  IF path = <<>> THEN <<>>
  ELSE (IF ActionOf(Head(path)) # "" THEN <<ActionOf(Head(path))>> ELSE <<>>)
         \o PathActions(Tail(path))

\* C27: on a successful parse, path is the root followed by the matched
\* subcommands in input order, each a subcommand of the one before it, and
\* actions lists in that order the action (or, for requiresSubcommand
\* without an action, the built-in usage action) of each path command that
\* has one.
C27_PathAndActions ==
  Succeeded
    => /\ ps.path = LexPath
       /\ ps.path[1] = root
       /\ \A i \in 2..Len(ps.path) :
             ps.path[i] \in Range(Commands[ps.path[i - 1]].subcommands)
       /\ ps.actions = PathActions(ps.path)

\* C27 witness: `1 2` entered two subcommands; the middle one has no
\* action and contributes nothing
C27_Witness ==
  /\ Succeeded /\ root = "act" /\ input = <<s_1, s_2>>
  /\ ps.path = <<"act", "a1", "a2">>
  /\ ps.actions = <<"act_root", "act_2">>

CollectsVariadic(o) ==
  /\ Options[o].isRepeatable = 0
  /\ \E k \in 1..Len(makeArray(Options[o].args)) : makeArray(Options[o].args)[k].isVariadic

\* The values bound to the option of an option token
ValuesOf(i) == ps.arrays[ps.foundOptions[Head(Options[lex.tokens[i].option].name)]]

\* C29: the values of an option with variadic arguments all come from the
\* tokens between its option token and the next option token, of whatever
\* kind the next option is: it has no more values than there are such
\* tokens.
C29_VariadicEndedByNextOption ==
  Succeeded
    => \A i \in OptionTokens :
         LET later == {j \in OptionTokens : j > i}
         IN (CollectsVariadic(lex.tokens[i].option) /\ later # {})
              => Len(ValuesOf(i)) <= Min(later) - i - 1

\* The options matched in the input
MatchedOptions == {lex.tokens[i].option : i \in OptionTokens}

\* C30: at the end of a successful parse every name of a matched option
\* is a key of the options map, the names of one option hold the same
\* value list, and every key is a name of a matched option: a name that
\* no matched option has is no key.
C30_AliasesShareOneList ==
  Succeeded
    => /\ \A o \in MatchedOptions : \A n, m \in Range(Options[o].name) :
             /\ MapHas(ps.foundOptions, n)
             /\ MapHas(ps.foundOptions, m)
             /\ ps.foundOptions[n] = ps.foundOptions[m]
       /\ \A n \in DOMAIN ps.foundOptions :
             \E o \in MatchedOptions : n \in Range(Options[o].name)

\* C30 witness: `-r` matched the option named -r and --rep; both names
\* are keys of one list and --opt, which was not matched, is no key
C30_Witness ==
  /\ Succeeded /\ root = "sepr" /\ input = <<s_r>>
  /\ MapHas(ps.foundOptions, s_r) /\ MapHas(ps.foundOptions, s_rep)
  /\ ps.foundOptions[s_r] = ps.foundOptions[s_rep]
  /\ ps.arrays[ps.foundOptions[s_rep]] = <<s_empty>>
  /\ ~MapHas(ps.foundOptions, s_opt)

\* An option collects its arguments without a mandatory separator and
\* holds at least its minimum
OpenOptionAtMinimum ==
  /\ AtParseToken
  /\ ps.state = "ParseOptionArgs"
  /\ ps.optionArgs # 0
  /\ Len(ps.arrays[ps.optionArgs]) >= ps.optionArgsMin

\* C31: while an option collects its arguments without a mandatory
\* separator and holds its minimum, a subcommand token has the effect it
\* has in the positional-collecting state: the subcommand is pushed onto
\* the path.
C31_SubcommandAfterOpenOption ==
  [][(OpenOptionAtMinimum /\ NextToken.kind = "subcommand")
      => /\ SameEffect(ps', AsInParseArgs)
         /\ ps'.path = Append(ps.path, NextToken.subcommand)]_vars

\* An option collects its arguments and already holds its maximum
OpenOptionAtMaximum ==
  /\ AtParseToken
  /\ ps.state = "ParseOptionArgs"
  /\ ps.optionArgs # 0
  /\ Len(ps.arrays[ps.optionArgs]) >= ps.optionArgsMax

\* C32: an arg token that arrives while the open option holds its maximum
\* is not bound to the option; it is bound as a positional of the current
\* command and the state is ParseArgs again, or parse throws
\* TooManyArguments when that command holds its maximum.
C32_ExcessValueIsPositional ==
  [][(OpenOptionAtMaximum /\ NextToken.kind = "arg")
      => /\ ps'.arrays = ps.arrays
         /\ IF /\ ~Commands[FinalCommand(ps)].requiresSubcommand
               /\ Len(ps.foundArgs) >= MaxOf(FinalCommand(ps))
            THEN ps'.error.kind = "TooManyArguments"
            ELSE /\ ps'.error = NoError
                 /\ ps'.foundArgs = Append(ps.foundArgs, NextToken.literal)
                 /\ ps'.state = "ParseArgs"
                 /\ ps'.optionArgs = 0]_vars

\* C32 witness: --opt takes one value; the second `v` became a positional
C32_Witness ==
  /\ Succeeded /\ root = "pers" /\ input = <<s_opt, s_v, s_v>>
  /\ ps.foundArgs = <<s_v>>
  /\ ResultOptions(ps)[s_opt] = <<s_v>>

\* An option collects its arguments without a mandatory separator and
\* holds fewer than its maximum
OpenOptionHasCapacity ==
  /\ ps.state = "ParseOptionArgs"
  /\ ps.optionArgs # 0
  /\ Len(ps.arrays[ps.optionArgs]) < ps.optionArgsMax

\* C33: an unknown-option token makes parse throw UnknownOption, except
\* while an option collects its arguments without a mandatory separator
\* and has capacity: then the literal of the token is appended to the
\* values of that option.
C33_UnknownOptionToken ==
  [][(AtParseToken /\ NextToken.kind = "unknown-option")
      => IF OpenOptionHasCapacity
         THEN /\ ps'.error = NoError
              /\ ps'.arrays = [ps.arrays EXCEPT ![ps.optionArgs] =
                                  Append(@, NextToken.literal)]
              /\ ps'.foundArgs = ps.foundArgs
         ELSE ps'.error.kind = "UnknownOption"]_vars

\* C33 witness: `-a` is no option of the spec and became the value of
\* --opt
C33_Witness ==
  /\ Succeeded /\ root = "long" /\ input = <<s_opt, s_a>>
  /\ \E i \in 1..Len(lex.tokens) : lex.tokens[i].kind = "unknown-option"
  /\ ResultOptions(ps)[s_opt] = <<s_a>>

\* The token consumed before the next one
PreviousToken == lex.tokens[ps.cursor]

\* The value list of the option of an option token
ListOf(token) == ps.foundOptions[Head(Options[token.option].name)]

\* C34: in a parse that succeeds, an inline option-arg token follows the
\* option token of the option it names, and its text is appended to the
\* values of that option and of no other, and not to the positionals.
C34_InlineValueBoundToItsOption ==
  [][(/\ AtParseToken
      /\ NextToken.kind = "option-arg"
      /\ parse(input, root).error = NoError)
      => /\ ps.cursor > 0
         /\ PreviousToken.kind = "option"
         /\ NextToken.optionName \in Range(Options[PreviousToken.option].name)
         /\ ps'.arrays = [ps.arrays EXCEPT ![ListOf(PreviousToken)] =
                             Append(@, NextToken.literal)]
         /\ ps'.foundArgs = ps.foundArgs]_vars

\* forEachCommand: the path from the spec to each command of its tree
RECURSIVE TreePaths(_)
TreePaths(path) ==
  {path} \cup
  UNION {TreePaths(Append(path, c)) :
           c \in Range(Commands[path[Len(path)]].subcommands)}

\* "Skip if the final parser directive in the chain is false": the last
\* value of subcommandsMatchUniquePrefix on the path that is not undefined
SkipPrefixAssertion(path) ==
  LET defined == SelectSeq(
        [i \in 1..Len(path) |->
           Commands[path[i]].parserDirectives.subcommandsMatchUniquePrefix],
        LAMBDA value : value # "undefined")
  IN defined # <<>> /\ defined[Len(defined)] = "false"

\* assertPrefixMatchCommandsHaveNoArguments(spec) returns without throwing
assertPrefixMatchCommandsHaveNoArguments(spec) ==
  \A path \in TreePaths(<<spec>>) :
     \/ SkipPrefixAssertion(path)
     \/ ~(/\ Commands[path[Len(path)]].subcommands # <<>>
          /\ Commands[path[Len(path)]].args.def)

\* The analyzer's subcommandsMatchUniquePrefix after it has entered the
\* commands of the path
RECURSIVE EnterPath(_, _)
EnterPath(state, path) ==
  IF path = <<>> THEN state
  ELSE EnterPath(updateCurrentCommand(state, Head(path)), Tail(path))

PrefixMatchingInEffect(path) == EnterPath(InitLex, path).subcommandsMatchUniquePrefix

\* C35: assertPrefixMatchCommandsHaveNoArguments throws exactly when some
\* command of the spec has both args and subcommands while the analyzer
\* matches its subcommands by unique prefix; a spec that never sets the
\* directive passes.
C35_PrefixAssertionFollowsParser ==
  assertPrefixMatchCommandsHaveNoArguments(root)
    <=> \A path \in TreePaths(<<root>>) :
           PrefixMatchingInEffect(path)
             => ~(/\ Commands[path[Len(path)]].subcommands # <<>>
                  /\ Commands[path[Len(path)]].args.def)

\* The names of the required non-persistent options of a command
LocalRequiredNames(command) ==
  UNION {Range(Options[o].name) :
           o \in {q \in OptionsOf(command) :
                    Options[q].isRequired /\ ~Options[q].isPersistent}}

\* C36: when analyze has ended in a subcommand, the local-required map
\* holds required options of that final command only, and parse throws
\* MissingRequiredOption only for a required option of the final command
\* or a persistent one of the path: a required non-persistent option of an
\* ancestor is not demanded.
C36_AncestorRequiredNotDemanded ==
  (pc \in {"parse", "done"} /\ Len(LexPath) > 1)
    => /\ DOMAIN lex.localRequiredOptions \subseteq LocalRequiredNames(Last(LexPath))
       /\ (pc = "done" /\ ps.error.kind = "MissingRequiredOption")
            => \E o \in DemandedRequired(LexPath) : ~Bound(o)

\* C37: on a successful parse every non-repeatable
\* option of the options map holds at least the minimum and at most the
\* maximum number of values of its declared args, for every spec.
C37_OptionArity ==
  Succeeded
    => \A i \in OptionTokens :
         LET option == Options[lex.tokens[i].option]
             args == makeArray(option.args)
         IN option.isRepeatable = 0
              => /\ Len(ValuesOf(i)) >= getMinArgs(args)
                 /\ Len(ValuesOf(i)) <= getMaxArgs(args)

\* C38: the assertions of parse hold before and after every token: no
\* "Invalid state" error is thrown, outside ParseArgs a value array of an
\* open option exists, and in ParseOptionArgRequireSeparator a separator is
\* set; a repeatable option that leaves the state unchanged keeps both.
C38_AssertionsNeverFail ==
  pc \in {"parse", "done"}
    => /\ ps.error.kind # "Error"
       /\ ps.state # "ParseArgs"
            => /\ ps.optionArgs # 0
               /\ ps.optionArgs \in DOMAIN ps.arrays
       /\ ps.state = "ParseOptionArgRequireSeparator"
            => ps.requiredSeparator.truthy

\* C38 witness: a repeatable option was matched while an option that
\* requires a separator was open, and the state is the same
C38_Witness ==
  /\ AtParseToken /\ ps.error = NoError /\ ps.cursor > 1
  /\ PreviousToken.kind = "option"
  /\ Options[PreviousToken.option].isRepeatable # 0
  /\ ps.state = "ParseOptionArgRequireSeparator"
  /\ ps.optionArgs # 0

\* The positions of the input that analyze has handled
HandledInputs == 0 .. (IF pc = "analyze" THEN lex.index ELSE Len(input)) - 1

\* C39: the index field never decreases along the token list, every token
\* carries the index of an input string, and every input string that
\* analyze has handled has one token or more, whichever branch handled it.
C39_TokensInInputOrder ==
  pc # "start"
    => /\ \A i \in 1 .. Len(lex.tokens) - 1 :
            lex.tokens[i].index <= lex.tokens[i + 1].index
       /\ \A i \in DOMAIN lex.tokens : lex.tokens[i].index \in HandledInputs
       /\ \A k \in HandledInputs :
            \E i \in DOMAIN lex.tokens : lex.tokens[i].index = k

\* C39 witness: three inputs were handled by the subcommand branch, an
\* option branch that emits two tokens for one input, and the positional
\* branch
C39_Witness ==
  /\ pc = "parse" /\ Len(input) = 3 /\ Len(lex.tokens) > 3
  /\ \E i, j, k \in DOMAIN lex.tokens :
       /\ lex.tokens[i].kind = "subcommand"
       /\ lex.tokens[j].kind = "option-arg"
       /\ lex.tokens[k].kind = "arg"

\* The tokens that parse has consumed
ConsumedTokens == SubSeq(lex.tokens, 1, ps.cursor)

\* Every bare token so far was bound as a value of an open option: a bare
\* token was consumed, no positional is bound and no `--` was met
OnlyOptionValuesBound ==
  /\ AtParseToken /\ ps.error = NoError
  /\ ps.foundArgs = <<>>
  /\ \E i \in 1 .. ps.cursor : lex.tokens[i].kind = "arg"
  /\ \A i \in 1 .. ps.cursor : lex.tokens[i].kind # "arg-separator"

\* No option consumed so far is a non-persistent one
OnlyPersistentOptionsUsed ==
  \A i \in 1 .. ps.cursor :
    lex.tokens[i].kind = "option" => Options[lex.tokens[i].option].isPersistent

\* C40: while every bare token so far was bound as a value of an open
\* option, the next input is not emitted as a positional when it names a
\* subcommand of the current command (and only persistent options were
\* used) nor, under optionsMustPrecedeArguments, when it names an option in
\* scope.
C40_OptionValueIsNoPositional ==
  (OnlyOptionValuesBound /\ NextToken.kind = "arg")
    => /\ OnlyPersistentOptionsUsed => getSubcommand(lex, NextToken.literal) = ""
       /\ lex.optionsMustPrecedeArguments => ~hasOption(lex, NextToken.literal)

====
